---- MODULE Spec2Model ----
(***************************************************************************)
(* PLOON (ulpi-io/ploon-js): the encoder (schema inference, path writer,   *)
(* record encoder), the decoder (scanner, schema parser, record router,    *)
(* tree builder) and the minify / prettify format conversions, as pure     *)
(* operators over character sequences, driven by a small state machine     *)
(* that applies them to bounded inputs.                                    *)
(*                                                                         *)
(* Text is a sequence of one-character strings. A JSON value is a tagged   *)
(* record; a JSON object keeps its keys in insertion order as a sequence   *)
(* of [k, v] pairs, k being a character sequence.                          *)
(***************************************************************************)
EXTENDS Integers, Sequences, FiniteSets, TLC

VARIABLES
  input,        \* the value handed to encode / stringify
  variant,      \* the same logical data with other key insertion orders
  config,       \* the configuration of the encode and decode calls
  text,         \* the current document
  variantText,  \* the document encoded from variant
  orig,         \* the document as encode returned it
  prev,         \* the document before the last format conversion
  ops,          \* the format conversions applied to the document, in order
  result,       \* what decode / parse returned or raised
  callOptions,  \* the options handed to stringify / parse
  report,       \* what validate returned
  pathWriter,   \* the stack of segments of a PathWriter
  pc            \* "ready", "encoded", "decoded", "compared", "validated" or "failed"

vars ==
  <<input, variant, config, text, variantText, orig, prev, ops, result, callOptions, report,
    pathWriter, pc>>

-----------------------------------------------------------------------------
(* Bounds of the model *)

\* the longest string value of an input
MaxStrLen == 2
\* the most format conversions applied to one document
MaxOps == 2
\* the most sibling elements of an array whose elements differ in shape
MaxRows == 3
\* the most levels of nested arrays of an input
MaxLevels == 4
\* the most elements, over all its levels, of a nested input
MaxNodes == 9

-----------------------------------------------------------------------------
(* Characters. JavaScript compares strings by UTF-16 code unit; CharOrder   *)
(* lists the characters the model uses in that order.                       *)

\* Let(e, F) is LET x == e IN F(x): the value e is bound once and the body is
\* written as LAMBDA x : ...
Let(e, F(_)) == F(e)

CharOrder ==
  << "\t", "\n", "\r", " ", "#", "(", ")", ",", "-", ".",
     "0", "1", "2", "3", "4", "5", "6", "7", "8", "9",
     ":", ";", "?",
     "A", "B", "C", "D", "E", "F", "G", "H", "I", "J", "K", "L", "M",
     "N", "O", "P", "Q", "R", "S", "T", "U", "V", "W", "X", "Y", "Z",
     "[", "\\", "]", "_",
     "a", "b", "c", "d", "e", "f", "g", "h", "i", "j", "k", "l", "m",
     "n", "o", "p", "q", "r", "s", "t", "u", "v", "w", "x", "y", "z",
     "{", "|", "}" >>

CharCode(c) == CHOOSE i \in 1..Len(CharOrder) : CharOrder[i] = c

DigitChars == << "0", "1", "2", "3", "4", "5", "6", "7", "8", "9" >>

IsDigit(c) == \E i \in 1..10 : DigitChars[i] = c

DigitValue(c) == (CHOOSE i \in 1..10 : DigitChars[i] = c) - 1

\* String.prototype.trim strips white space and line terminators
IsWhitespace(c) == c \in {" ", "\n", "\t", "\r"}

RECURSIVE trimStart(_)
trimStart(s) ==
  IF s # <<>> /\ IsWhitespace(s[1]) THEN trimStart(Tail(s)) ELSE s

RECURSIVE trimEnd(_)
trimEnd(s) ==
  IF s # <<>> /\ IsWhitespace(s[Len(s)])
  THEN trimEnd(SubSeq(s, 1, Len(s) - 1))
  ELSE s

trim(s) == trimEnd(trimStart(s))

\* a < b in JavaScript's string order
RECURSIVE StrLess(_, _)
StrLess(a, b) ==
  IF b = <<>> THEN FALSE
  ELSE IF a = <<>> THEN TRUE
  ELSE IF a[1] = b[1] THEN StrLess(Tail(a), Tail(b))
  ELSE CharCode(a[1]) < CharCode(b[1])

\* Array.prototype.sort() without comparator, on a set of distinct strings
RECURSIVE SortStrings(_)
SortStrings(S) ==
  IF S = {} THEN <<>>
  ELSE     Let( CHOOSE x \in S : \A y \in S \ {x} : StrLess(x, y), LAMBDA m :
          <<m>> \o SortStrings(S \ {m}))

\* Array.prototype.join
RECURSIVE join(_, _)
join(parts, sep) ==
  IF parts = <<>> THEN <<>>
  ELSE IF Len(parts) = 1 THEN parts[1]
  ELSE parts[1] \o sep \o join(Tail(parts), sep)

\* Array.prototype.filter / map on sequences
RECURSIVE SelectSeqIdx(_, _, _)
SelectSeqIdx(s, P(_), i) ==
  IF i > Len(s) THEN <<>>
  ELSE (IF P(s[i]) THEN <<s[i]>> ELSE <<>>) \o SelectSeqIdx(s, P, i + 1)

Filter(s, P(_)) == SelectSeqIdx(s, P, 1)

Map(s, F(_)) == [i \in 1..Len(s) |-> F(s[i])]

\* Positions in a string are 0-based, as in the source: s[i] is charAt(s, i)
charAt(s, i) == s[i + 1]

\* String.prototype.slice(start, end)
slice(s, start, end) ==
  LET clamp(x) == IF x < 0 THEN (IF Len(s) + x < 0 THEN 0 ELSE Len(s) + x)
                  ELSE IF x > Len(s) THEN Len(s) ELSE x
  IN SubSeq(s, clamp(start) + 1, clamp(end))

\* String.prototype.indexOf(ch, from) for a one-character ch; -1 when absent
RECURSIVE indexOfFrom(_, _, _)
indexOfFrom(s, ch, from) ==
  IF from < 0 THEN indexOfFrom(s, ch, 0)
  ELSE IF from >= Len(s) THEN -1
  ELSE IF charAt(s, from) = ch THEN from
  ELSE indexOfFrom(s, ch, from + 1)

indexOf(s, ch) == indexOfFrom(s, ch, 0)

includes(s, ch) == indexOf(s, ch) # -1

endsWith(s, ch) == s # <<>> /\ s[Len(s)] = ch

\* The iterations lo..hi of a loop over the positions of a text, run in
\* order.  The range is halved instead of walked so that the evaluation of a
\* long text stays shallow; st.i is the loop variable, and an iteration whose
\* position the loop variable has already passed does nothing.
RECURSIVE forRange(_, _, _, _)
forRange(body(_, _), st, lo, hi) ==
  IF lo > hi THEN st
  ELSE IF lo = hi THEN (IF lo < st.i THEN st ELSE body(st, lo))
  ELSE LET mid == (lo + hi) \div 2 IN
           Let(    forRange(body, st, lo, mid), LAMBDA half :
          IF half.i > hi THEN half ELSE forRange(body, half, mid + 1, hi))

\* String.prototype.split(ch) for a one-character separator
split(s, ch) ==
  LET body(st, i) ==
        IF charAt(s, i) = ch
        THEN [parts |-> Append(st.parts, st.current), current |-> <<>>, i |-> i + 1]
        ELSE [st EXCEPT !.current = Append(@, charAt(s, i)), !.i = i + 1] IN
      Let(   forRange(body, [parts |-> <<>>, current |-> <<>>, i |-> 0], 0, Len(s) - 1), LAMBDA end :
     Append(end.parts, end.current))

\* String.prototype.replace with a global pattern matching the literal pat
RECURSIVE ReplaceAll(_, _, _)
ReplaceAll(s, pat, rep) ==
  IF Len(s) < Len(pat) THEN s
  ELSE IF SubSeq(s, 1, Len(pat)) = pat
       THEN rep \o ReplaceAll(SubSeq(s, Len(pat) + 1, Len(s)), pat, rep)
       ELSE <<s[1]>> \o ReplaceAll(Tail(s), pat, rep)

-----------------------------------------------------------------------------
(* JSON values *)

Null == [t |-> "null"]
Undefined == [t |-> "undefined"]
Bool(b) == [t |-> "boolean", b |-> b]
\* a finite number: sign, integer part, decimal digits (no trailing zero)
Number(neg, i, f) == [t |-> "number", neg |-> neg, i |-> i, f |-> f]
IntNum(i) == Number(FALSE, i, <<>>)
Str(s) == [t |-> "string", s |-> s]
Arr(a) == [t |-> "array", a |-> a]
Obj(o) == [t |-> "object", o |-> o]

isJsonArray(v) == v.t = "array"
isJsonObject(v) == v.t = "object"
isJsonPrimitive(v) == v.t \in {"null", "string", "number", "boolean"}

isArrayOfObjects(v) == \A i \in 1..Len(v.a) : isJsonObject(v.a[i])

\* Object.keys(obj), key in obj, obj[key], obj[key] = value
ObjectKeys(obj) == [i \in 1..Len(obj.o) |-> obj.o[i].k]
KeySet(obj) == {obj.o[i].k : i \in 1..Len(obj.o)}
HasKey(obj, key) == key \in KeySet(obj)
Get(obj, key) ==
  IF HasKey(obj, key)
  THEN obj.o[CHOOSE i \in 1..Len(obj.o) : obj.o[i].k = key].v
  ELSE Undefined
Put(obj, key, value) ==
  IF HasKey(obj, key)
  THEN Obj([i \in 1..Len(obj.o) |->
              IF obj.o[i].k = key THEN [k |-> key, v |-> value] ELSE obj.o[i]])
  ELSE Obj(Append(obj.o, [k |-> key, v |-> value]))
Delete(obj, key) == Obj(Filter(obj.o, LAMBDA p : p.k # key))

\* Number.prototype.toString for the numbers of the model
RECURSIVE NatToString(_)
NatToString(n) ==
  IF n < 10 THEN <<DigitChars[n + 1]>>
  ELSE NatToString(n \div 10) \o <<DigitChars[(n % 10) + 1]>>

NumberToString(v) ==
  (IF v.neg THEN <<"-">> ELSE <<>>) \o NatToString(v.i)
    \o (IF v.f = <<>> THEN <<>> ELSE <<".">> \o v.f)

\* String(value)
RECURSIVE String(_)
String(v) ==
  CASE v.t = "string" -> v.s
    [] v.t = "number" -> NumberToString(v)
    [] v.t = "boolean" -> IF v.b THEN <<"t", "r", "u", "e">>
                          ELSE <<"f", "a", "l", "s", "e">>
    [] v.t = "null" -> <<"n", "u", "l", "l">>
    [] v.t = "undefined" -> <<"u", "n", "d", "e", "f", "i", "n", "e", "d">>
    [] v.t = "array" ->
         join([i \in 1..Len(v.a) |->
                 IF v.a[i].t \in {"null", "undefined"} THEN <<>>
                 ELSE String(v.a[i])], <<",">>)
    [] v.t = "object" ->
         << "[", "o", "b", "j", "e", "c", "t", " ",
            "O", "b", "j", "e", "c", "t", "]" >>

-----------------------------------------------------------------------------
(* Configuration *)

\* the fields of PloonConfig that the shipped constants leave to the defaults
ConfigDefaults ==
  [ schemaFieldSeparator |-> ",", schemaWhitespace |-> " ",
    optionalFieldMarker |-> "?", preserveEmptyFields |-> TRUE ]

PLOON_STANDARD ==
  [ fieldDelimiter |-> "|", pathSeparator |-> ":", arraySizeMarker |-> "#",
    recordSeparator |-> "\n", escapeChar |-> "\\",
    schemaOpen |-> "[", schemaClose |-> "]",
    fieldsOpen |-> "(", fieldsClose |-> ")", nestedSeparator |-> "|",
    schemaFieldSeparator |-> ConfigDefaults.schemaFieldSeparator,
    schemaWhitespace |-> ConfigDefaults.schemaWhitespace,
    optionalFieldMarker |-> ConfigDefaults.optionalFieldMarker,
    preserveEmptyFields |-> ConfigDefaults.preserveEmptyFields ]

PLOON_COMPACT == [PLOON_STANDARD EXCEPT !.recordSeparator = ";"]

-----------------------------------------------------------------------------
(* shared/string-utils.ts *)

escapeValue(value, cfg) ==
  LET e == cfg.escapeChar
      s1 == ReplaceAll(value, <<e>>, <<e, e>>)
      s2 == ReplaceAll(s1, <<cfg.fieldDelimiter>>, <<e, cfg.fieldDelimiter>>) IN
      Let(  ReplaceAll(s2, <<cfg.recordSeparator>>, <<e, cfg.recordSeparator>>), LAMBDA s3 :
      Let(  ReplaceAll(s3, <<",">>, <<e, ",">>), LAMBDA s4 :
     s4))

unescapeValue(value, cfg) ==
  LET e == cfg.escapeChar
      s1 == ReplaceAll(value, <<e, cfg.fieldDelimiter>>, <<cfg.fieldDelimiter>>)
      s2 == ReplaceAll(s1, <<e, cfg.recordSeparator>>, <<cfg.recordSeparator>>) IN
      Let(  ReplaceAll(s2, <<e, ",">>, <<",">>), LAMBDA s3 :
      Let(  ReplaceAll(s3, <<e, e>>, <<e>>), LAMBDA s4 :
     s4))

formatValue(value, cfg, isOptional) ==
  IF value.t = "null" THEN <<"n", "u", "l", "l">>
  ELSE IF value.t = "undefined"
       THEN (IF isOptional THEN <<>> ELSE <<"n", "u", "l", "l">>)
       ELSE escapeValue(String(value), cfg)

formatPrimitiveArray(array, cfg, preserveEmpty) ==
      Let(        [i \in 1..Len(array) |->
                     IF array[i].t \in {"null", "undefined"} THEN <<>>
                     ELSE escapeValue(String(array[i]), cfg)], LAMBDA elements :
      Let(    IF preserveEmpty THEN elements
              ELSE Filter(elements, LAMBDA el : el # <<>>), LAMBDA kept :
     join(kept, <<",">>)))

splitEscaped(str, delimiter, escapeChar) ==
  LET body(st, i) ==
        IF charAt(str, i) = escapeChar /\ i + 1 < Len(str)
        THEN LET nextChar == charAt(str, i + 1) IN
             IF nextChar = delimiter \/ nextChar = escapeChar
             THEN [st EXCEPT !.current = Append(@, nextChar), !.i = i + 2]
             ELSE [st EXCEPT !.current = @ \o <<charAt(str, i), nextChar>>, !.i = i + 2]
        ELSE IF charAt(str, i) = delimiter
        THEN [parts |-> Append(st.parts, st.current), current |-> <<>>, i |-> i + 1]
        ELSE [st EXCEPT !.current = Append(@, charAt(str, i)), !.i = i + 1] IN
      Let(   forRange(body, [parts |-> <<>>, current |-> <<>>, i |-> 0], 0, Len(str) - 1), LAMBDA end :
     Append(end.parts, end.current))

-----------------------------------------------------------------------------
(* A result that may be a raised Error *)

Ok(v) == [error |-> "", value |-> v]
Throw(msg) == [error |-> msg, value |-> <<>>]

-----------------------------------------------------------------------------
(* encode/normalize.ts *)

\* an array with no elements or an object with no keys
isEmptyValue(value) ==
  \/ isJsonArray(value) /\ Len(value.a) = 0
  \/ isJsonObject(value) /\ Len(value.o) = 0

hasUniformSchema(objects) ==
  \A i \in 1..Len(objects) : KeySet(objects[i]) = KeySet(objects[1])

getAllKeys(objects) ==
  SortStrings(UNION {KeySet(objects[i]) : i \in 1..Len(objects)})

\* key -> isOptional, for every key of some object
analyzeFields(objects) ==
  [key \in UNION {KeySet(objects[i]) : i \in 1..Len(objects)} |->
     LET count == Cardinality({i \in 1..Len(objects) : HasKey(objects[i], key)})
         isMissingSomewhere == count < Len(objects) IN
         Let(
           \E i \in 1..Len(objects) :
              HasKey(objects[i], key) /\ isEmptyValue(Get(objects[i], key)), LAMBDA isEmptySomewhere :
        [isOptional |-> isMissingSomewhere \/ isEmptySomewhere])]

-----------------------------------------------------------------------------
(* encode/schema.ts (src/unnamed/part_006) *)

SchemaField(name, type, isOptional, nested) ==
  [name |-> name, type |-> type, isOptional |-> isOptional, nested |-> nested]

isPrimitiveType(f) == f.type = "primitive" \/ f.type = "primitiveArray"

\* a comparator that tells no two fields apart
compareNever(a, b) == 0

\* the comparator of fields.sort: primitives before complex, then required
\* before optional
compareFields(a, b) ==
  IF isPrimitiveType(a) # isPrimitiveType(b)
  THEN (IF isPrimitiveType(a) THEN -1 ELSE 1)
  ELSE IF a.isOptional # b.isOptional
  THEN (IF a.isOptional THEN 1 ELSE -1)
  ELSE 0

\* Array.prototype.sort is stable: a field goes behind the last field that
\* does not compare greater than it
RECURSIVE insertField(_, _)
insertField(sorted, f) ==
  IF sorted = <<>> THEN <<f>>
  ELSE IF compareFields(sorted[Len(sorted)], f) <= 0 THEN Append(sorted, f)
  ELSE Append(insertField(SubSeq(sorted, 1, Len(sorted) - 1), f), sorted[Len(sorted)])

RECURSIVE sortFieldsFrom(_, _, _)
sortFieldsFrom(fields, i, sorted) ==
  IF i > Len(fields) THEN sorted
  ELSE sortFieldsFrom(fields, i + 1, insertField(sorted, fields[i]))

\* fields.sort((a, b) => ...)
sortFields(fields) == sortFieldsFrom(fields, 1, <<>>)

\* the first element of objects that has key (array.find), 0 when none
RECURSIVE findWithKey(_, _, _)
findWithKey(objects, key, i) ==
  IF i > Len(objects) THEN 0
  ELSE IF HasKey(objects[i], key) THEN i
  ELSE findWithKey(objects, key, i + 1)

firstValueOf(objects, key) ==
      Let( findWithKey(objects, key, 1), LAMBDA i :
     IF i = 0 THEN Undefined ELSE Get(objects[i], key))

RECURSIVE findNestedArrayLoop(_, _, _, _)
findNestedArrayLoop(objects, key, i, st) ==
  IF i > Len(objects) THEN st
  ELSE IF ~HasKey(objects[i], key) THEN findNestedArrayLoop(objects, key, i + 1, st)
  ELSE     Let(     Get(objects[i], key), LAMBDA value :
       IF isJsonArray(value)
       THEN findNestedArrayLoop(objects, key, i + 1,
              [st EXCEPT !.arrayCount = @ + 1,
                         !.found = IF st.found = Undefined
                                      \/ (Len(st.found.a) = 0 /\ Len(value.a) > 0)
                                   THEN value ELSE st.found])
       ELSE IF isJsonObject(value)
       THEN findNestedArrayLoop(objects, key, i + 1, [st EXCEPT !.objectCount = @ + 1])
       ELSE findNestedArrayLoop(objects, key, i + 1, [st EXCEPT !.primitiveCount = @ + 1]))

findNestedArray(objects, key) ==
      Let(  findNestedArrayLoop(objects, key, 1,
              [arrayCount |-> 0, primitiveCount |-> 0, objectCount |-> 0,
               found |-> Undefined]), LAMBDA st :
     IF st.arrayCount > st.primitiveCount /\ st.arrayCount > st.objectCount
        /\ st.found # Undefined /\ Len(st.found.a) > 0 /\ isArrayOfObjects(st.found)
     THEN st.found
     ELSE Undefined)

RECURSIVE findNestedObjectLoop(_, _, _, _)
findNestedObjectLoop(objects, key, i, st) ==
  IF i > Len(objects) THEN st
  ELSE IF ~HasKey(objects[i], key) THEN findNestedObjectLoop(objects, key, i + 1, st)
  ELSE     Let(     Get(objects[i], key), LAMBDA value :
       IF isJsonObject(value)
       THEN findNestedObjectLoop(objects, key, i + 1,
              [st EXCEPT !.objectCount = @ + 1,
                         !.found = IF st.found = Undefined
                                      \/ (Len(st.found.o) = 0 /\ Len(value.o) > 0)
                                   THEN value ELSE st.found])
       ELSE IF isJsonArray(value)
       THEN findNestedObjectLoop(objects, key, i + 1, [st EXCEPT !.arrayCount = @ + 1])
       ELSE findNestedObjectLoop(objects, key, i + 1, [st EXCEPT !.primitiveCount = @ + 1]))

findNestedObject(objects, key) ==
      Let(  findNestedObjectLoop(objects, key, 1,
              [arrayCount |-> 0, primitiveCount |-> 0, objectCount |-> 0,
               found |-> Undefined]), LAMBDA st :
     IF st.objectCount > st.primitiveCount /\ st.objectCount > st.arrayCount
     THEN st.found
     ELSE Undefined)

analyzeArrayField(objects, key, fieldMetadata) ==
  LET isOptional == fieldMetadata[key].isOptional IN
      Let(           findNestedArray(objects, key), LAMBDA nestedArray :
      Let(            findNestedObject(objects, key), LAMBDA nestedObject :
      Let(          firstValueOf(objects, key), LAMBDA firstValue :
     IF nestedArray # Undefined
     THEN SchemaField(key, "array", isOptional, nestedArray)
     ELSE IF nestedObject # Undefined
     THEN SchemaField(key, "object", isOptional, nestedObject)
     ELSE IF isJsonArray(firstValue)
             /\ (Len(firstValue.a) = 0 \/ ~isArrayOfObjects(firstValue))
     THEN SchemaField(key, "primitiveArray", isOptional, Undefined)
     ELSE SchemaField(key, "primitive", isOptional, Undefined))))

analyzeArrayFields(array) ==
  IF Len(array.a) = 0 THEN <<>>
  ELSE IF isArrayOfObjects(array)
  THEN LET keys == getAllKeys(array.a)
           fieldMetadata == analyzeFields(array.a)
       IN sortFields([i \in 1..Len(keys) |->
                        analyzeArrayField(array.a, keys[i], fieldMetadata)])
  ELSE <<>>

formatFieldName(name, isOptional, cfg) ==
  IF isOptional THEN name \o <<cfg.optionalFieldMarker>> ELSE name

RECURSIVE generateNestedArraySchema(_, _, _, _)
RECURSIVE generateNestedObjectSchema(_, _, _, _)

\* the field strings of generateArraySchema / generateNestedArraySchema
fieldStringsOf(fields, cfg) ==
  [i \in 1..Len(fields) |->
     LET field == fields[i] IN
     IF field.type = "array" /\ isJsonArray(field.nested)
     THEN generateNestedArraySchema(field.name, field.nested, field.isOptional, cfg)
     ELSE IF field.type = "object" /\ isJsonObject(field.nested)
     THEN generateNestedObjectSchema(field.name, field.nested, field.isOptional, cfg)
     ELSE IF field.type = "primitiveArray"
     THEN formatFieldName(field.name, field.isOptional, cfg)
            \o <<cfg.arraySizeMarker, cfg.fieldsOpen, cfg.fieldsClose>>
     ELSE formatFieldName(field.name, field.isOptional, cfg)]

generateNestedArraySchema(name, array, isOptional, cfg) ==
  LET count == Len(array.a) IN
      Let(      analyzeArrayFields(array), LAMBDA fields : LET
      fieldsStr == join(fieldStringsOf(fields, cfg), <<cfg.schemaFieldSeparator>>)
  IN formatFieldName(name, isOptional, cfg) \o <<cfg.arraySizeMarker>>
       \o NatToString(count) \o <<cfg.fieldsOpen>> \o fieldsStr \o <<cfg.fieldsClose>>)

\* an array that generateNestedObjectSchema and encodeNestedObject write inline
isPrimArray(value) == Len(value.a) = 0 \/ ~isArrayOfObjects(value)

generateNestedObjectSchema(name, obj, isOptional, cfg) ==
  LET keys == SortStrings(KeySet(obj))
      primitiveKeys ==
        Filter(keys, LAMBDA key :
              Let(     Get(obj, key), LAMBDA value :
          IF isJsonArray(value) THEN isPrimArray(value) ELSE ~isJsonObject(value)))
      requiredComplexKeys ==
        Filter(keys, LAMBDA key :
              Let(     Get(obj, key), LAMBDA value :
          IF isJsonArray(value) THEN ~isPrimArray(value)
          ELSE isJsonObject(value) /\ Len(value.o) # 0))
      optionalComplexKeys ==
        Filter(keys, LAMBDA key :
              Let(     Get(obj, key), LAMBDA value :    isJsonObject(value) /\ Len(value.o) = 0))
      primitiveStrings ==
        [i \in 1..Len(primitiveKeys) |->
           IF isJsonArray(Get(obj, primitiveKeys[i]))
           THEN primitiveKeys[i] \o <<cfg.arraySizeMarker, cfg.fieldsOpen, cfg.fieldsClose>>
           ELSE primitiveKeys[i]]
      complexString(key, opt) ==
        LET value == Get(obj, key) IN
        IF isJsonArray(value) THEN generateNestedArraySchema(key, value, opt, cfg)
        ELSE generateNestedObjectSchema(key, value, opt, cfg)
      requiredStrings ==
        [i \in 1..Len(requiredComplexKeys) |-> complexString(requiredComplexKeys[i], FALSE)]
      optionalStrings ==
        [i \in 1..Len(optionalComplexKeys) |-> complexString(optionalComplexKeys[i], TRUE)] IN
      Let(         join(primitiveStrings \o requiredStrings \o optionalStrings,
                        <<cfg.schemaFieldSeparator>>), LAMBDA fieldsStr :
     formatFieldName(name, isOptional, cfg) \o <<"{">> \o fieldsStr \o <<"}">>)

generateArraySchema(name, array, cfg) ==
  LET count == Len(array.a)
      fields == analyzeArrayFields(array) IN
      Let(         join(fieldStringsOf(fields, cfg), <<cfg.schemaFieldSeparator>>), LAMBDA fieldsStr :
     <<cfg.schemaOpen>> \o name \o <<cfg.arraySizeMarker>> \o NatToString(count)
       \o <<cfg.schemaClose, cfg.fieldsOpen>> \o fieldsStr \o <<cfg.fieldsClose>>)

\* the first array-valued property in insertion order (Object.entries)
RECURSIVE firstArrayEntry(_, _)
firstArrayEntry(data, i) ==
  IF i > Len(data.o) THEN 0
  ELSE IF isJsonArray(data.o[i].v) THEN i
  ELSE firstArrayEntry(data, i + 1)

\* schema.ts findRootArray: {name, array}; array is Undefined when none
schemaFindRootArray(data) ==
  IF isJsonArray(data) THEN [name |-> <<"r", "o", "o", "t">>, array |-> data]
  ELSE IF isJsonObject(data) /\ firstArrayEntry(data, 1) # 0
  THEN [name |-> data.o[firstArrayEntry(data, 1)].k,
        array |-> data.o[firstArrayEntry(data, 1)].v]
  ELSE [name |-> <<"r", "o", "o", "t">>, array |-> Undefined]

generateSchema(data, cfg) ==
  LET root == schemaFindRootArray(data)
  IN IF root.array = Undefined
     THEN Throw("Data must contain at least one array to generate PLOON schema")
     ELSE Ok(generateArraySchema(root.name, root.array, cfg))

-----------------------------------------------------------------------------
(* encode/path-writer.ts: the PathWriter is its stack of segments *)

ArraySeg(index) == [type |-> "array", index |-> index]
ObjectSeg == [type |-> "object"]

NewPathWriter == <<>>

\* a push that gives every element the index 1
pushArrayFirst(pathSegments, index) == Append(pathSegments, ArraySeg(1))

pushArray(pathSegments, index) == Append(pathSegments, ArraySeg(index))

pushObject(pathSegments) == Append(pathSegments, ObjectSeg)

\* a pop that removes nothing
popNothing(pathSegments) == pathSegments

\* Array.prototype.pop leaves an empty array empty
pop(pathSegments) ==
  IF pathSegments = <<>> THEN <<>>
  ELSE SubSeq(pathSegments, 1, Len(pathSegments) - 1)

getDepth(pathSegments) == Len(pathSegments)

\* a path that leaves the space of an object segment out
getCurrentPathNoSpace(pathSegments, cfg) ==
  IF Len(pathSegments) = 0 THEN <<>>
  ELSE IF pathSegments[Len(pathSegments)].type = "array"
  THEN NatToString(Len(pathSegments)) \o <<cfg.pathSeparator>>
         \o NatToString(pathSegments[Len(pathSegments)].index)
  ELSE NatToString(Len(pathSegments))

getCurrentPath(pathSegments, cfg) ==
  IF Len(pathSegments) = 0 THEN <<>>
  ELSE LET depth == Len(pathSegments)
           lastSegment == pathSegments[Len(pathSegments)]
       IN IF lastSegment.type = "array"
          THEN NatToString(depth) \o <<cfg.pathSeparator>> \o NatToString(lastSegment.index)
          ELSE NatToString(depth) \o <<" ">>

-----------------------------------------------------------------------------
(* encode/encoder.ts *)

\* encoder.ts findRootArray: auto-wraps single objects and primitives
encoderFindRootArray(data) ==
  IF isJsonArray(data) THEN data
  ELSE IF isJsonObject(data) /\ firstArrayEntry(data, 1) # 0
  THEN data.o[firstArrayEntry(data, 1)].v
  ELSE Arr(<<data>>)

\* the SchemaField list encodeArray builds for an array of objects
encodeArrayField(objects, key, fieldMetadata) ==
      Let(     firstValueOf(objects, key), LAMBDA value : LET
      isOptional == fieldMetadata[key].isOptional
  IN IF isJsonArray(value)
     THEN IF Len(value.a) > 0 /\ isArrayOfObjects(value)
          THEN SchemaField(key, "array", isOptional, value)
          ELSE SchemaField(key, "primitiveArray", isOptional, Undefined)
     ELSE IF isJsonObject(value)
     THEN SchemaField(key, "object", isOptional, value)
     ELSE SchemaField(key, "primitive", isOptional, Undefined))

encodeArrayFields(array) ==
  LET keys == getAllKeys(array.a)
      fieldMetadata == analyzeFields(array.a)
  IN sortFields([i \in 1..Len(keys) |->
                   encodeArrayField(array.a, keys[i], fieldMetadata)])

\* the index of the last optional complex field present in obj, 0 when none
lastPresentOptional(obj, complexFields) ==
      Let(       {i \in 1..Len(complexFields) :
                    complexFields[i].isOptional /\ HasKey(obj, complexFields[i].name)}, LAMBDA present :
     IF present = {} THEN 0 ELSE CHOOSE i \in present : \A j \in present : j <= i)

encodeObject(obj, fields, pathSegments, cfg) ==
  LET path == getCurrentPath(pathSegments, cfg)
      primitiveFields == Filter(fields, isPrimitiveType)
      complexFields == Filter(fields, LAMBDA f : f.type = "array" \/ f.type = "object") IN
      Let(
        [i \in 1..Len(primitiveFields) |->
           LET field == primitiveFields[i]
               value == Get(obj, field.name)
           IN IF field.isOptional /\ ~HasKey(obj, field.name) THEN <<>>
              ELSE IF field.type = "primitiveArray" /\ isJsonArray(value)
              THEN IF Len(value.a) = 0 THEN <<",">>
                   ELSE formatPrimitiveArray(value.a, cfg, cfg.preserveEmptyFields)
              ELSE formatValue(value, cfg, FALSE)], LAMBDA primitiveValues : LET
      lastPresentOptionalIndex == lastPresentOptional(obj, complexFields) IN
      Let(
        Filter(SubSeq(complexFields, 1, lastPresentOptionalIndex),
               LAMBDA field :
                 /\ field.isOptional
                 /\ HasKey(obj, field.name)
                 /\     Let(     Get(obj, field.name), LAMBDA value :
                    \/ field.type = "array" /\ isJsonArray(value) /\ Len(value.a) = 0
                    \/ field.type = "object" /\ isJsonObject(value) /\ Len(value.o) = 0)), LAMBDA markerFields : LET
      markers == [i \in 1..Len(markerFields) |-> <<>>]
  IN join(<<path>> \o primitiveValues \o markers, <<cfg.fieldDelimiter>>)))

RECURSIVE encodeArray(_, _, _)
RECURSIVE encodeNestedObject(_, _, _)

\* array.forEach of the primitive branch of encodeArray
RECURSIVE encodePrimitiveItems(_, _, _, _, _)
encodePrimitiveItems(array, index, pathSegments, cfg, records) ==
  IF index > Len(array.a) THEN [records |-> records, pathWriter |-> pathSegments]
  ELSE LET pushed == pushArray(pathSegments, index) IN
           Let(      getCurrentPath(pushed, cfg) \o <<cfg.fieldDelimiter>>
                       \o formatValue(array.a[index], cfg, FALSE), LAMBDA record :
          encodePrimitiveItems(array, index + 1, pop(pushed), cfg,
                               Append(records, record)))

\* the loop over fields that encodes an element's nested structures
RECURSIVE encodeNestedFields(_, _, _, _, _, _)
encodeNestedFields(obj, fields, fi, pathSegments, cfg, records) ==
  IF fi > Len(fields) THEN [records |-> records, pathWriter |-> pathSegments]
  ELSE LET field == fields[fi]
           value == Get(obj, field.name)
       IN IF field.type = "primitive"
          THEN encodeNestedFields(obj, fields, fi + 1, pathSegments, cfg, records)
          ELSE IF field.type = "array" /\ isJsonArray(value)
          THEN     Let( encodeArray(value, pathSegments, cfg), LAMBDA r :
                  encodeNestedFields(obj, fields, fi + 1, r.pathWriter, cfg,
                                     records \o r.records))
          ELSE IF field.type = "object" /\ isJsonObject(value)
          THEN     Let( encodeNestedObject(value, pathSegments, cfg), LAMBDA r :
                  encodeNestedFields(obj, fields, fi + 1, r.pathWriter, cfg,
                                     records \o r.records))
          ELSE encodeNestedFields(obj, fields, fi + 1, pathSegments, cfg, records)

\* array.forEach of the object branch of encodeArray
RECURSIVE encodeObjectItems(_, _, _, _, _, _)
encodeObjectItems(array, fields, index, pathSegments, cfg, records) ==
  IF index > Len(array.a) THEN [records |-> records, pathWriter |-> pathSegments]
  ELSE LET obj == array.a[index]
           pushed == pushArray(pathSegments, index)
           record == encodeObject(obj, fields, pushed, cfg) IN
           Let( encodeNestedFields(obj, fields, 1, pushed, cfg, <<record>>), LAMBDA r :
          encodeObjectItems(array, fields, index + 1, pop(r.pathWriter), cfg,
                            records \o r.records))

encodeArray(array, pathSegments, cfg) ==
  IF ~isArrayOfObjects(array)
  THEN encodePrimitiveItems(array, 1, pathSegments, cfg, <<>>)
  ELSE encodeObjectItems(array, encodeArrayFields(array), 1, pathSegments, cfg, <<>>)

\* the loop over keys that encodes a nested object's nested structures
RECURSIVE encodeNestedKeys(_, _, _, _, _, _)
encodeNestedKeys(obj, keys, ki, pathSegments, cfg, records) ==
  IF ki > Len(keys) THEN [records |-> records, pathWriter |-> pathSegments]
  ELSE     Let(     Get(obj, keys[ki]), LAMBDA value :
       IF isJsonArray(value)
       THEN IF ~isPrimArray(value)
            THEN LET r == encodeArray(value, pathSegments, cfg)
                 IN encodeNestedKeys(obj, keys, ki + 1, r.pathWriter, cfg,
                                     records \o r.records)
            ELSE encodeNestedKeys(obj, keys, ki + 1, pathSegments, cfg, records)
       ELSE IF isJsonObject(value)
       THEN LET r == encodeNestedObject(value, pathSegments, cfg)
            IN encodeNestedKeys(obj, keys, ki + 1, r.pathWriter, cfg,
                                records \o r.records)
       ELSE encodeNestedKeys(obj, keys, ki + 1, pathSegments, cfg, records))

encodeNestedObject(obj, pathSegments, cfg) ==
  LET pushed == pushObject(pathSegments)
      keys == SortStrings(KeySet(obj))
      path == getCurrentPath(pushed, cfg)
      isComplexKey(key) ==
            Let(     Get(obj, key), LAMBDA value :
        IF isJsonArray(value) THEN ~isPrimArray(value) ELSE isJsonObject(value))
      primitiveKeys == Filter(keys, LAMBDA key : ~isComplexKey(key))
      complexKeys == Filter(keys, isComplexKey) IN
      Let(
        [i \in 1..Len(primitiveKeys) |->
               Let(     Get(obj, primitiveKeys[i]), LAMBDA value :
           IF isJsonArray(value)
           THEN IF Len(value.a) = 0 THEN <<",">>
                ELSE formatPrimitiveArray(value.a, cfg, cfg.preserveEmptyFields)
           ELSE formatValue(value, cfg, FALSE))], LAMBDA primitiveValues :
      Let(        {i \in 1..Len(complexKeys) : ~isEmptyValue(Get(obj, complexKeys[i]))}, LAMBDA nonEmpty : LET
      lastNonEmptyIndex ==
        IF nonEmpty = {} THEN 0 ELSE CHOOSE i \in nonEmpty : \A j \in nonEmpty : j <= i IN
      Let(          Filter(SubSeq(complexKeys, 1, lastNonEmptyIndex),
                           LAMBDA key : isEmptyValue(Get(obj, key))), LAMBDA markerKeys : LET
      markers == [i \in 1..Len(markerKeys) |-> <<>>]
      record == join(<<path>> \o primitiveValues \o markers, <<cfg.fieldDelimiter>>) IN
      Let( encodeNestedKeys(obj, keys, 1, pushed, cfg, <<record>>), LAMBDA r :
     [records |-> r.records, pathWriter |-> pop(r.pathWriter)]))))

encode(data, cfg) ==
      Let(      generateSchema(data, cfg), LAMBDA schema : LET
      rootArray == encoderFindRootArray(data) IN
      Let( encodeArray(rootArray, NewPathWriter, cfg), LAMBDA r :
     IF schema.error # "" THEN schema
     ELSE Ok(schema.value \o <<cfg.recordSeparator, cfg.recordSeparator>>
               \o join(r.records, <<cfg.recordSeparator>>))))

-----------------------------------------------------------------------------
(* decode/scanner.ts *)

ScannedRecord(path, values) == [path |-> path, values |-> values]

\* the index of the last empty part that follows the schema
RECURSIVE skipEmptyParts(_, _)
skipEmptyParts(parts, schemaIndex) ==
  IF schemaIndex + 1 < Len(parts) /\ trim(parts[schemaIndex + 2]) = <<>>
  THEN skipEmptyParts(parts, schemaIndex + 1)
  ELSE schemaIndex

scan(ploonString, cfg) ==
      Let(     splitEscaped(ploonString, cfg.recordSeparator, cfg.escapeChar), LAMBDA parts : LET
      schema == trim(parts[1])
      schemaIndex == skipEmptyParts(parts, 0)
      recordParts == SubSeq(parts, schemaIndex + 2, Len(parts))
      nonEmpty == Filter(recordParts, LAMBDA part : trim(part) # <<>>) IN
      Let(
        [i \in 1..Len(nonEmpty) |->
               Let(      splitEscaped(trim(nonEmpty[i]), cfg.fieldDelimiter,
                                      cfg.escapeChar), LAMBDA fields :
              ScannedRecord(fields[1], Tail(fields)))], LAMBDA records :
     [schema |-> schema, records |-> records]))

-----------------------------------------------------------------------------
(* parseInt(str, 10): a number, or NaN *)

NaN == [nan |-> TRUE, n |-> 0]
Num(n) == [nan |-> FALSE, n |-> n]

RECURSIVE digitsValue(_, _, _)
digitsValue(s, i, acc) ==
  IF i > Len(s) \/ ~IsDigit(s[i]) THEN acc
  ELSE digitsValue(s, i + 1, acc * 10 + DigitValue(s[i]))

parseInt(str) ==
      Let( trimStart(str), LAMBDA s : LET
      neg == s # <<>> /\ s[1] = "-"
      body == IF s # <<>> /\ s[1] \in {"-", "+"} THEN Tail(s) ELSE s
  IN IF body = <<>> \/ ~IsDigit(body[1]) THEN NaN
     ELSE Num(IF neg THEN 0 - digitsValue(body, 1, 0) ELSE digitsValue(body, 1, 0)))

-----------------------------------------------------------------------------
(* decode/parser.ts *)

ParsedSchema(rootName, count, fields) ==
  [rootName |-> rootName, count |-> count, fields |-> fields]

ParsedField(name, isArray, isObject, isPrimitiveArray, isOptional, nested) ==
  [name |-> name, isArray |-> isArray, isObject |-> isObject,
   isPrimitiveArray |-> isPrimitiveArray, isOptional |-> isOptional,
   nested |-> nested]

RECURSIVE matchLoop(_, _, _, _, _)
matchLoop(str, pos, depth, openChar, closeChar) ==
  IF pos < Len(str) /\ depth > 0
  THEN matchLoop(str, pos + 1,
                 IF charAt(str, pos) = openChar THEN depth + 1
                 ELSE IF charAt(str, pos) = closeChar THEN depth - 1
                 ELSE depth,
                 openChar, closeChar)
  ELSE IF depth = 0 THEN pos - 1 ELSE -1

findMatchingCloseParen(str, openPos, openChar, closeChar) ==
  matchLoop(str, openPos + 1, 1, openChar, closeChar)

findMatchingCloseBrace(str, openPos) ==
  matchLoop(str, openPos + 1, 1, "{", "}")

\* the scan of parseNextField: the position of the separator that ends the field
RECURSIVE fieldEnd(_, _, _, _, _)
fieldEnd(str, pos, depth, braceDepth, cfg) ==
  IF pos >= Len(str) THEN pos
  ELSE LET c == charAt(str, pos) IN
       IF c = cfg.fieldsOpen THEN fieldEnd(str, pos + 1, depth + 1, braceDepth, cfg)
       ELSE IF c = cfg.fieldsClose THEN fieldEnd(str, pos + 1, depth - 1, braceDepth, cfg)
       ELSE IF c = "{" THEN fieldEnd(str, pos + 1, depth, braceDepth + 1, cfg)
       ELSE IF c = "}" THEN fieldEnd(str, pos + 1, depth, braceDepth - 1, cfg)
       ELSE IF c = cfg.schemaFieldSeparator /\ depth = 0 /\ braceDepth = 0 THEN pos
       ELSE fieldEnd(str, pos + 1, depth, braceDepth, cfg)

RECURSIVE skipChars(_, _, _)
skipChars(str, pos, chars) ==
  IF pos < Len(str) /\ charAt(str, pos) \in chars
  THEN skipChars(str, pos + 1, chars)
  ELSE pos

RECURSIVE parseFields(_, _)
RECURSIVE parseFieldDefinition(_, _)

parseNextField(str, start, cfg) ==
  LET pos == fieldEnd(str, start, 0, 0, cfg)
  IN [field |-> parseFieldDefinition(trim(slice(str, start, pos)), cfg),
      nextPos |-> pos]

RECURSIVE parseFieldsLoop(_, _, _, _)
parseFieldsLoop(fieldsStr, pos, fields, cfg) ==
  IF pos >= Len(fieldsStr) THEN Ok(fields)
  ELSE LET p1 == skipChars(fieldsStr, pos, {cfg.schemaWhitespace}) IN
       IF p1 >= Len(fieldsStr) THEN Ok(fields)
       ELSE     Let(    parseNextField(fieldsStr, p1, cfg), LAMBDA next :
                Let(  skipChars(fieldsStr, next.nextPos,
                                {cfg.schemaFieldSeparator, cfg.schemaWhitespace}), LAMBDA p2 :
               IF next.field.error # "" THEN next.field
               ELSE parseFieldsLoop(fieldsStr, p2, Append(fields, next.field.value), cfg)))

parseFields(fieldsStr, cfg) == parseFieldsLoop(fieldsStr, 0, <<>>, cfg)

parseFieldDefinition(fieldStr0, cfg) ==
  LET arrayMarkerIndex0 == indexOf(fieldStr0, cfg.arraySizeMarker)
      objectBraceIndex0 == indexOf(fieldStr0, "{")
      bothExist == arrayMarkerIndex0 # -1 /\ objectBraceIndex0 # -1
      hasArray == arrayMarkerIndex0 # -1
                    /\ (bothExist => arrayMarkerIndex0 < objectBraceIndex0)
      hasObject == objectBraceIndex0 # -1
                     /\ (bothExist => ~(arrayMarkerIndex0 < objectBraceIndex0))
      before == IF hasObject THEN slice(fieldStr0, 0, objectBraceIndex0)
                ELSE IF hasArray THEN slice(fieldStr0, 0, arrayMarkerIndex0)
                ELSE fieldStr0
      isOptional == endsWith(before, cfg.optionalFieldMarker) IN
      Let(
        IF ~isOptional THEN fieldStr0
        ELSE IF hasObject
        THEN slice(before, 0, -1) \o slice(fieldStr0, objectBraceIndex0, Len(fieldStr0))
        ELSE IF hasArray
        THEN slice(before, 0, -1) \o slice(fieldStr0, arrayMarkerIndex0, Len(fieldStr0))
        ELSE slice(fieldStr0, 0, -1), LAMBDA fieldStr : LET
      arrayMarkerIndex == indexOf(fieldStr, cfg.arraySizeMarker)
      objectBraceIndex == indexOf(fieldStr, "{")
  IN IF hasObject
     THEN LET name == trim(slice(fieldStr, 0, objectBraceIndex))
              closePos == findMatchingCloseBrace(fieldStr, objectBraceIndex)
              nestedFields == parseFields(slice(fieldStr, objectBraceIndex + 1, closePos), cfg)
          IN IF closePos = -1 THEN Throw("Unmatched braces in field")
             ELSE IF nestedFields.error # "" THEN nestedFields
             ELSE Ok(ParsedField(name, FALSE, TRUE, FALSE, isOptional,
                                 ParsedSchema(name, Num(0), nestedFields.value)))
     ELSE IF hasArray
     THEN LET name == trim(slice(fieldStr, 0, arrayMarkerIndex))
              afterMarker == arrayMarkerIndex + 1
              openParenPos == indexOfFrom(fieldStr, cfg.fieldsOpen, afterMarker)
              hasCount == openParenPos # -1 /\ openParenPos > afterMarker
              parsedCount == parseInt(slice(fieldStr, afterMarker, openParenPos))
              count == IF hasCount /\ ~parsedCount.nan THEN parsedCount ELSE Num(0)
              openPos == IF hasCount THEN openParenPos ELSE afterMarker
              closePos == findMatchingCloseParen(fieldStr, openPos,
                                                 cfg.fieldsOpen, cfg.fieldsClose) IN
              Let(            parseFields(trim(slice(fieldStr, openPos + 1, closePos)), cfg), LAMBDA nestedFields :
             IF closePos = -1 THEN Throw("Unmatched parentheses in field")
             ELSE IF nestedFields.error # "" THEN nestedFields
             ELSE Ok(ParsedField(name, TRUE, FALSE, Len(nestedFields.value) = 0,
                                 isOptional,
                                 ParsedSchema(name, count, nestedFields.value))))
     ELSE Ok(ParsedField(trim(fieldStr), FALSE, FALSE, FALSE, isOptional, Undefined)))

parseSchema(schema, cfg) ==
  LET headerStart == indexOf(schema, cfg.schemaOpen)
      headerEnd == indexOfFrom(schema, cfg.schemaClose, headerStart)
      header == split(slice(schema, headerStart + 1, headerEnd), cfg.arraySizeMarker)
      rootName == header[1]
      count == IF Len(header) >= 2 /\ header[2] # <<>> THEN parseInt(header[2])
               ELSE Num(0)
      fieldsStart == indexOfFrom(schema, cfg.fieldsOpen, headerEnd)
      fieldsEnd == findMatchingCloseParen(schema, fieldsStart,
                                          cfg.fieldsOpen, cfg.fieldsClose) IN
      Let(      parseFields(slice(schema, fieldsStart + 1, fieldsEnd), cfg), LAMBDA fields :
     IF headerStart = -1 \/ headerEnd = -1 THEN Throw("Invalid PLOON schema")
     ELSE IF fieldsStart = -1 THEN Throw("Invalid PLOON schema: No fields found")
     ELSE IF fieldsEnd = -1 THEN Throw("Invalid PLOON schema: Unmatched parentheses")
     ELSE IF fields.error # "" THEN fields
     ELSE Ok(ParsedSchema(rootName, count, fields.value)))

-----------------------------------------------------------------------------
(* decode/decoder.ts (src/packages/ploon/src/parsers/yaml.ts, from line 59) *)

ParsedPath(depth, index, isObject) ==
  [depth |-> depth, index |-> index, isObject |-> isObject]

parsePath(path, separator) ==
  LET trimmed == trim(path)
      pieces == split(trimmed, separator)
  IN IF ~includes(trimmed, separator)
     THEN ParsedPath(parseInt(trimmed), Undefined, TRUE)
     ELSE ParsedPath(parseInt(pieces[1]), parseInt(pieces[2]), FALSE)

\* comparisons of numbers that may be NaN
NumEq(a, b) == ~a.nan /\ ~b.nan /\ a.n = b.n
NumLe(a, b) == ~a.nan /\ ~b.nan /\ a.n <= b.n

\* /^-?\d+(\.\d+)?$/
matchesNumber(value) ==
  LET body == IF value # <<>> /\ value[1] = "-" THEN Tail(value) ELSE value
      dot == indexOf(body, ".") IN
      Let(       IF dot = -1 THEN body ELSE slice(body, 0, dot), LAMBDA intPart :
      Let(        IF dot = -1 THEN <<>> ELSE slice(body, dot + 1, Len(body)), LAMBDA fracPart : LET
      allDigits(s) == \A i \in 1..Len(s) : IsDigit(s[i])
  IN /\ intPart # <<>> /\ allDigits(intPart)
     /\ dot # -1 => (fracPart # <<>> /\ allDigits(fracPart))))

RECURSIVE stripTrailingZeros(_)
stripTrailingZeros(s) ==
  IF s # <<>> /\ s[Len(s)] = "0" THEN stripTrailingZeros(SubSeq(s, 1, Len(s) - 1))
  ELSE s

\* parseFloat of a string that matches the number pattern; -0 equals 0
parseFloat(value) ==
  LET neg == value[1] = "-"
      body == IF neg THEN Tail(value) ELSE value
      dot == indexOf(body, ".") IN
      Let( digitsValue(body, 1, 0), LAMBDA i :
      Let( IF dot = -1 THEN <<>> ELSE stripTrailingZeros(slice(body, dot + 1, Len(body))), LAMBDA f :
     Number(neg /\ ~(i = 0 /\ f = <<>>), i, f)))

parseValueFromUnescaped(value) ==
  IF matchesNumber(value) THEN parseFloat(value)
  ELSE IF value = <<"n", "u", "l", "l">> THEN Null
  ELSE IF value = <<"t", "r", "u", "e">> THEN Bool(TRUE)
  ELSE IF value = <<"f", "a", "l", "s", "e">> THEN Bool(FALSE)
  ELSE Str(value)

parseValue(value, cfg) == parseValueFromUnescaped(unescapeValue(value, cfg))

\* the bookkeeping key createObjectFromRecord stores on a decoded object
PresenceKey ==
  << "_", "_", "p", "r", "e", "s", "e", "n", "c", "e",
     "M", "a", "r", "k", "e", "r", "s", "_", "_" >>

MarkerSet(m) == [t |-> "set", m |-> m]

isComplexParsed(f) == ~f.isPrimitiveArray /\ (f.isArray \/ f.isObject)

emptyOf(field) == IF field.isArray THEN Arr(<<>>) ELSE Obj(<<>>)

\* the loop of createObjectFromRecord over the primitive fields
RECURSIVE readPrimitives(_, _, _, _, _, _)
readPrimitives(record, primitiveFields, k, valueIndex, obj, cfg) ==
  IF k > Len(primitiveFields) \/ valueIndex >= Len(record.values)
  THEN [obj |-> obj, valueIndex |-> valueIndex]
  ELSE LET field == primitiveFields[k]
           rawValue == record.values[valueIndex + 1]
       IN IF field.isOptional /\ rawValue = <<>>
          THEN readPrimitives(record, primitiveFields, k + 1, valueIndex + 1, obj, cfg)
          ELSE IF field.isPrimitiveArray
          THEN IF rawValue = <<",">>
               THEN readPrimitives(record, primitiveFields, k + 1, valueIndex + 1,
                                   Put(obj, field.name, Arr(<<>>)), cfg)
               ELSE LET elements == splitEscaped(rawValue, ",", cfg.escapeChar)
                    IN readPrimitives(record, primitiveFields, k + 1, valueIndex + 1,
                         Put(obj, field.name,
                             Arr([i \in 1..Len(elements) |->
                                    parseValueFromUnescaped(elements[i])])), cfg)
          ELSE readPrimitives(record, primitiveFields, k + 1, valueIndex + 1,
                              Put(obj, field.name, parseValue(rawValue, cfg)), cfg)

\* the loop of createObjectFromRecord over the optional complex fields
RECURSIVE readMarkers(_, _, _, _)
readMarkers(record, optionalComplexFields, i, st) ==
  IF i > Len(optionalComplexFields) THEN st
  ELSE LET field == optionalComplexFields[i] IN
           Let(           Put(st.obj, field.name, emptyOf(field)), LAMBDA initialised :
          IF st.hitDataField
          THEN readMarkers(record, optionalComplexFields, i + 1,
                           [st EXCEPT !.obj = initialised])
          ELSE IF st.valueIndex < Len(record.values)
          THEN IF record.values[st.valueIndex + 1] = <<>>
               THEN readMarkers(record, optionalComplexFields, i + 1,
                      [st EXCEPT !.obj = initialised,
                                 !.presenceMarkers = @ \cup {field.name},
                                 !.valueIndex = @ + 1,
                                 !.markersRead = @ + 1])
               ELSE readMarkers(record, optionalComplexFields, i + 1,
                      [st EXCEPT !.obj = initialised, !.hitDataField = TRUE])
          ELSE IF st.markersRead > 0
          THEN readMarkers(record, optionalComplexFields, i + 1,
                      [st EXCEPT !.obj = initialised, !.hitDataField = TRUE])
          ELSE st)

\* the loop of createObjectFromRecord that initialises required complex fields
RECURSIVE initRequired(_, _, _)
initRequired(complexFields, i, obj) ==
  IF i > Len(complexFields) THEN obj
  ELSE LET field == complexFields[i] IN
       IF ~field.isOptional /\ ~HasKey(obj, field.name)
       THEN initRequired(complexFields, i + 1, Put(obj, field.name, emptyOf(field)))
       ELSE initRequired(complexFields, i + 1, obj)

createObjectFromRecord(record, fields, cfg) ==
  LET primitiveFields ==
        Filter(fields, LAMBDA f : f.isPrimitiveArray \/ (~f.isArray /\ ~f.isObject))
      complexFields == Filter(fields, isComplexParsed)
      optionalComplexFields == Filter(complexFields, LAMBDA f : f.isOptional) IN
      Let( readPrimitives(record, primitiveFields, 1, 0, Obj(<<>>), cfg), LAMBDA p :
      Let( readMarkers(record, optionalComplexFields, 1,
                       [obj |-> p.obj, valueIndex |-> p.valueIndex,
                        markersRead |-> 0, hitDataField |-> FALSE,
                        presenceMarkers |-> {}]), LAMBDA m :
      Let(            initRequired(complexFields, 1, m.obj), LAMBDA withRequired :
      Let(   IF m.presenceMarkers # {}
             THEN Put(withRequired, PresenceKey, MarkerSet(m.presenceMarkers))
             ELSE withRequired, LAMBDA obj :
     [obj |-> obj, presenceMarkers |-> m.presenceMarkers]))))

FieldRecordGroup(field, fieldIdx, batch) ==
  [fieldName |-> field.name, fieldIndex |-> fieldIdx,
   isArray |-> field.isArray, isObject |-> field.isObject,
   records |-> [i \in 1..Len(batch) |-> batch[i].record],
   recordIndices |-> [i \in 1..Len(batch) |-> batch[i].index]]

\* the loop of buildRoutingMap; fieldIdx counts from 0 as in the source
RECURSIVE routeLoop(_, _, _, _, _, _, _, _, _)
routeLoop(childRecords, allFields, pathSeparator, k, groups, currentBatch, lastIndex, lastWasObject, fieldIdx) ==
  IF k > Len(childRecords)
  THEN IF currentBatch # <<>> /\ fieldIdx < Len(allFields)
       THEN Append(groups, FieldRecordGroup(allFields[fieldIdx + 1], fieldIdx, currentBatch))
       ELSE groups
  ELSE LET item == childRecords[k] IN
           Let(      parsePath(item.record.path, pathSeparator), LAMBDA parsed : LET
           currentIndex == IF parsed.isObject THEN Num(0) ELSE parsed.index
           isObject == parsed.isObject
           fieldBoundary ==
             \/ currentBatch # <<>> /\ NumLe(currentIndex, lastIndex)
             \/ currentBatch # <<>> /\ isObject # lastWasObject
             \/ lastWasObject /\ isObject
       IN IF fieldBoundary
          THEN IF fieldIdx < Len(allFields)
               THEN     Let(      Append(groups,
                          FieldRecordGroup(allFields[fieldIdx + 1], fieldIdx, currentBatch)), LAMBDA pushed :
                       IF fieldIdx + 1 >= Len(allFields) THEN pushed
                       ELSE routeLoop(childRecords, allFields, pathSeparator, k + 1,
                                      pushed, <<item>>, currentIndex, isObject, fieldIdx + 1))
               ELSE groups
          ELSE routeLoop(childRecords, allFields, pathSeparator, k + 1, groups,
                         Append(currentBatch, item), currentIndex, isObject, fieldIdx))

buildRoutingMap(childRecords, allFields, presenceMarkers, pathSeparator) ==
  routeLoop(childRecords, allFields, pathSeparator, 1, <<>>, <<>>, Num(-1), FALSE, 0)

\* The inner loop of buildParentChildMap stopping at the first record that is
\* not a direct child: a child that follows a grandchild is lost.
RECURSIVE childrenOfDirectRun(_, _, _, _, _)
childrenOfDirectRun(records, pathSeparator, myDepth, j, children) ==
  IF j > Len(records) THEN children
  ELSE     Let(          parsePath(records[j].path, pathSeparator).depth, LAMBDA childDepth :
       IF NumEq(childDepth, Num(myDepth.n + 1)) /\ ~myDepth.nan
       THEN childrenOfDirectRun(records, pathSeparator, myDepth, j + 1, Append(children, j))
       ELSE children)

\* The inner loop of buildParentChildMap going on past siblings and
\* ancestors: every later record of the next depth is a child.
RECURSIVE childrenOfEveryNext(_, _, _, _, _)
childrenOfEveryNext(records, pathSeparator, myDepth, j, children) ==
  IF j > Len(records) THEN children
  ELSE     Let(          parsePath(records[j].path, pathSeparator).depth, LAMBDA childDepth :
       IF NumEq(childDepth, Num(myDepth.n + 1)) /\ ~myDepth.nan
       THEN childrenOfEveryNext(records, pathSeparator, myDepth, j + 1, Append(children, j))
       ELSE childrenOfEveryNext(records, pathSeparator, myDepth, j + 1, children))

\* the inner loop of buildParentChildMap: the direct children of record i
RECURSIVE childrenOf(_, _, _, _, _)
childrenOf(records, pathSeparator, myDepth, j, children) ==
  IF j > Len(records) THEN children
  ELSE     Let(          parsePath(records[j].path, pathSeparator).depth, LAMBDA childDepth :
       IF NumEq(childDepth, Num(myDepth.n + 1)) /\ ~myDepth.nan
       THEN childrenOf(records, pathSeparator, myDepth, j + 1, Append(children, j))
       ELSE IF NumLe(childDepth, myDepth) THEN children
       ELSE childrenOf(records, pathSeparator, myDepth, j + 1, children))

\* record positions count from 1 here
buildParentChildMap(records, pathSeparator) ==
  [i \in 1..Len(records) |->
     childrenOf(records, pathSeparator,
                parsePath(records[i].path, pathSeparator).depth, i + 1, <<>>)]

\* Decoded objects are mutated after they are linked into their parent, so
\* the tree is built in a heap of objects that refer to each other by position.
Ref(id) == [t |-> "ref", id |-> id]
isRef(v) == v.t = "ref"

ParentInfo(obj, fields, recordIndex) ==
  [obj |-> obj, fields |-> fields, recordIndex |-> recordIndex]

BuildState(heap, nextLevelParents, error) ==
  [heap |-> heap, nextLevelParents |-> nextLevelParents, error |-> error]

\* for (let i ...) over group.records of an array group
RECURSIVE pushArrayRecords(_, _, _, _, _, _)
pushArrayRecords(st, parentId, field, group, i, cfg) ==
  IF i > Len(group.records) \/ st.error # "" THEN st
  ELSE LET rec == group.records[i]
           recIdx == group.recordIndices[i]
           fields == IF field.nested = Undefined THEN <<>> ELSE field.nested.fields
           targetArray == Get(st.heap[parentId], field.name)
       IN IF ~isJsonArray(targetArray)
          THEN [st EXCEPT !.error = "TypeError: targetArray.push is not a function"]
          ELSE IF fields = <<>>
          THEN     Let(     IF Len(rec.values) > 0 THEN parseValue(rec.values[1], cfg)
                            ELSE Null, LAMBDA value :
                  pushArrayRecords(
                    [st EXCEPT !.heap[parentId] =
                       Put(@, field.name, Arr(Append(targetArray.a, value)))],
                    parentId, field, group, i + 1, cfg))
          ELSE     Let(         createObjectFromRecord(rec, fields, cfg).obj, LAMBDA arrayItem : LET
                   id == Len(st.heap) + 1
                   heap1 == Append(st.heap, arrayItem)
               IN pushArrayRecords(
                    [st EXCEPT !.heap = [heap1 EXCEPT ![parentId] =
                                   Put(@, field.name, Arr(Append(targetArray.a, Ref(id))))],
                               !.nextLevelParents = Append(@, ParentInfo(id, fields, recIdx))],
                    parentId, field, group, i + 1, cfg))

\* for (const group of routingMap)
RECURSIVE processGroups(_, _, _, _, _, _)
processGroups(st, parentId, complexFields, routingMap, g, cfg) ==
  IF g > Len(routingMap) \/ st.error # "" THEN st
  ELSE LET group == routingMap[g]
           field == complexFields[group.fieldIndex + 1]
       IN IF group.isArray
          THEN LET st1 == IF ~HasKey(st.heap[parentId], field.name)
                          THEN [st EXCEPT !.heap[parentId] = Put(@, field.name, Arr(<<>>))]
                          ELSE st
               IN processGroups(pushArrayRecords(st1, parentId, field, group, 1, cfg),
                                parentId, complexFields, routingMap, g + 1, cfg)
          ELSE IF group.isObject /\ field.nested # Undefined /\ Len(group.records) > 0
          THEN LET fields == field.nested.fields IN
                   Let(         createObjectFromRecord(group.records[1], fields, cfg).obj, LAMBDA nestedObj : LET
                   id == Len(st.heap) + 1
                   heap1 == Append(st.heap, nestedObj)
               IN processGroups(
                    [st EXCEPT !.heap = [heap1 EXCEPT ![parentId] = Put(@, field.name, Ref(id))],
                               !.nextLevelParents =
                                  Append(@, ParentInfo(id, fields, group.recordIndices[1]))],
                    parentId, complexFields, routingMap, g + 1, cfg))
          ELSE processGroups(st, parentId, complexFields, routingMap, g + 1, cfg)

\* for (const parent of parentsAtCurrentDepth)
RECURSIVE processParents(_, _, _, _, _, _, _)
processParents(st, records, parentChildMap, parents, k, childDepth, cfg) ==
  IF k > Len(parents) \/ st.error # "" THEN st
  ELSE LET parent == parents[k]
           parentObj == st.heap[parent.obj]
           presenceMarkers == IF HasKey(parentObj, PresenceKey)
                              THEN Get(parentObj, PresenceKey).m ELSE {}
           childIndices == parentChildMap[parent.recordIndex]
           myChildrenWithIndices ==
             Filter([i \in 1..Len(childIndices) |->
                       [record |-> records[childIndices[i]], index |-> childIndices[i]]],
                    LAMBDA item : NumEq(parsePath(item.record.path, cfg.pathSeparator).depth,
                                        Num(childDepth)))
           complexFields ==
             Filter(Filter(parent.fields, isComplexParsed),
                    LAMBDA f : f.name \notin presenceMarkers)
           routingMap == buildRoutingMap(myChildrenWithIndices, complexFields,
                                         presenceMarkers, cfg.pathSeparator)
       IN IF myChildrenWithIndices = <<>> \/ routingMap = <<>>
          THEN processParents(st, records, parentChildMap, parents, k + 1, childDepth, cfg)
          ELSE processParents(
                 processGroups(st, parent.obj, complexFields, routingMap, 1, cfg),
                 records, parentChildMap, parents, k + 1, childDepth, cfg)

\* while (parentsAtCurrentDepth.length > 0)
RECURSIVE processLevels(_, _, _, _, _, _)
processLevels(heap, records, parentChildMap, parentsAtCurrentDepth, currentDepth, cfg) ==
  IF parentsAtCurrentDepth = <<>> THEN BuildState(heap, <<>>, "")
  ELSE     Let(  processParents(BuildState(heap, <<>>, ""), records, parentChildMap,
                                parentsAtCurrentDepth, 1, currentDepth + 1, cfg), LAMBDA st :
          IF st.error # "" THEN st
          ELSE processLevels(st.heap, records, parentChildMap, st.nextLevelParents,
                             currentDepth + 1, cfg))

\* Object.keys(value).filter(k => k !== '__presenceMarkers__').length === 0,
\* for a value that is a heap object or one of the literal {} placeholders
hasNoOwnKeys(heap, value) ==
  LET o == IF isRef(value) THEN heap[value.id] ELSE value
  IN Filter(ObjectKeys(o), LAMBDA k : k # PresenceKey) = <<>>

\* a cleanup that removes nothing
cleanupNothing(heap, id, fields) == heap

\* a loop over the items of an array that cleans none of them
cleanupNoItems(heap, items, i, fields) == heap

RECURSIVE cleanupOptionalFields(_, _, _)
RECURSIVE cleanupFields(_, _, _, _, _)
RECURSIVE cleanupItems(_, _, _, _)

\* for (const item of value) of cleanupOptionalFields
cleanupItems(heap, items, i, fields) ==
  IF i > Len(items) THEN heap
  ELSE IF isRef(items[i])
  THEN cleanupItems(cleanupOptionalFields(heap, items[i].id, fields), items, i + 1, fields)
  ELSE cleanupItems(heap, items, i + 1, fields)

\* for (const field of fields) of cleanupOptionalFields
cleanupFields(heap, id, fields, k, presenceMarkers) ==
  IF k > Len(fields) THEN heap
  ELSE LET field == fields[k] IN
           Let(     Get(heap[id], field.name), LAMBDA value :
          IF field.isArray /\ ~field.isPrimitiveArray /\ isJsonArray(value)
          THEN     Let(     IF field.nested # Undefined
                            THEN cleanupItems(heap, value.a, 1, field.nested.fields)
                            ELSE heap, LAMBDA heap1 :
                   Let(     IF field.isOptional /\ Len(value.a) = 0
                               /\ field.name \notin presenceMarkers
                            THEN [heap1 EXCEPT ![id] = Delete(@, field.name)]
                            ELSE heap1, LAMBDA heap2 :
                  cleanupFields(heap2, id, fields, k + 1, presenceMarkers)))
          ELSE IF field.isObject /\ (isRef(value) \/ isJsonObject(value))
          THEN LET heap1 == IF field.nested # Undefined /\ isRef(value)
                            THEN cleanupOptionalFields(heap, value.id, field.nested.fields)
                            ELSE heap IN
                   Let(     IF field.isOptional /\ hasNoOwnKeys(heap1, value)
                               /\ field.name \notin presenceMarkers
                            THEN [heap1 EXCEPT ![id] = Delete(@, field.name)]
                            ELSE heap1, LAMBDA heap2 :
                  cleanupFields(heap2, id, fields, k + 1, presenceMarkers))
          ELSE cleanupFields(heap, id, fields, k + 1, presenceMarkers))

cleanupOptionalFields(heap, id, fields) ==
  LET obj == heap[id]
      presenceMarkers == IF HasKey(obj, PresenceKey) THEN Get(obj, PresenceKey).m ELSE {} IN
      Let(       cleanupFields(heap, id, fields, 1, presenceMarkers), LAMBDA cleaned :
     [cleaned EXCEPT ![id] = Delete(@, PresenceKey)])

\* the value a heap reference stands for
RECURSIVE Deref(_, _)
Deref(heap, v) ==
  IF isRef(v) THEN Deref(heap, heap[v.id])
  ELSE IF isJsonArray(v) THEN Arr([i \in 1..Len(v.a) |-> Deref(heap, v.a[i])])
  ELSE IF isJsonObject(v)
  THEN Obj([i \in 1..Len(v.o) |-> [k |-> v.o[i].k, v |-> Deref(heap, v.o[i].v)]])
  ELSE v

\* Step 3 of buildTree: the root objects, one per depth-1 array record
RECURSIVE createRoots(_, _, _, _, _, _)
createRoots(records, schema, cfg, i, heap, parents) ==
  IF i > Len(records) THEN [heap |-> heap, parents |-> parents]
  ELSE LET parsed == parsePath(records[i].path, cfg.pathSeparator) IN
       IF NumEq(parsed.depth, Num(1)) /\ ~parsed.isObject
       THEN createRoots(records, schema, cfg, i + 1,
                        Append(heap, createObjectFromRecord(records[i], schema.fields, cfg).obj),
                        Append(parents, ParentInfo(Len(heap) + 1, schema.fields, i)))
       ELSE createRoots(records, schema, cfg, i + 1, heap, parents)

RECURSIVE cleanupRoots(_, _, _, _)
cleanupRoots(heap, rootItems, i, fields) ==
  IF i > Len(rootItems) THEN heap
  ELSE cleanupRoots(cleanupOptionalFields(heap, rootItems[i].obj, fields),
                    rootItems, i + 1, fields)

buildTree(records, schema, cfg) ==
  IF Len(records) = 0 THEN Ok(<<>>)
  ELSE LET parentChildMap == buildParentChildMap(records, cfg.pathSeparator) IN
           Let(     createRoots(records, schema, cfg, 1, <<>>, <<>>), LAMBDA roots :
           Let(     processLevels(roots.heap, records, parentChildMap, roots.parents, 1, cfg), LAMBDA built :
           Let(       cleanupRoots(built.heap, roots.parents, 1, schema.fields), LAMBDA cleaned :
          IF built.error # "" THEN Throw(built.error)
          ELSE Ok([i \in 1..Len(roots.parents) |->
                     Deref(cleaned, Ref(roots.parents[i].obj))]))))

\* rootItems as they are when Step 4 of buildTree ends, before the cleanup loop
treeBeforeCleanup(records, schema, cfg) ==
  IF Len(records) = 0 THEN <<>>
  ELSE LET parentChildMap == buildParentChildMap(records, cfg.pathSeparator) IN
           Let(     createRoots(records, schema, cfg, 1, <<>>, <<>>), LAMBDA roots :
           Let(     processLevels(roots.heap, records, parentChildMap, roots.parents, 1, cfg), LAMBDA built :
          [i \in 1..Len(roots.parents) |-> Deref(built.heap, Ref(roots.parents[i].obj))]))

reconstruct(records, schema, cfg) ==
      Let(    buildTree(records, schema, cfg), LAMBDA tree :
     IF tree.error # "" THEN tree
     ELSE Ok(Obj(<< [k |-> schema.rootName, v |-> Arr(tree.value)] >>)))

decode(ploonString, cfg) ==
  LET scanned == scan(ploonString, cfg) IN
      Let(            parseSchema(scanned.schema, cfg), LAMBDA parsedSchema :
     IF parsedSchema.error # "" THEN parsedSchema
     ELSE reconstruct(scanned.records, parsedSchema.value, cfg))

-----------------------------------------------------------------------------
(* encode/normalize.ts, config.ts, core/stringify.ts, core/parse.ts *)

RECURSIVE normalizeValue(_)
normalizeValue(value) ==
  IF value.t = "null" THEN Null
  ELSE IF value.t \in {"string", "boolean"} THEN value
  ELSE IF value.t = "number"
  THEN IF value.i = 0 /\ value.f = <<>> THEN IntNum(0) ELSE value
  ELSE IF isJsonArray(value)
  THEN Arr([i \in 1..Len(value.a) |-> normalizeValue(value.a[i])])
  ELSE IF isJsonObject(value)
  THEN Obj([i \in 1..Len(value.o) |->
              [k |-> value.o[i].k, v |-> normalizeValue(value.o[i].v)]])
  ELSE Null

DEFAULT_CONFIG == PLOON_STANDARD

\* An options object, and a partial configuration, is a record that has only
\* the properties that were given; NoOptions is the call without options.
NoOptions == [k \in {} |-> ""]

Has(obj, key) == key \in DOMAIN obj

\* { ...base, ...over }
Spread(base, over) ==
  [k \in DOMAIN base \cup DOMAIN over |-> IF k \in DOMAIN over THEN over[k] ELSE base[k]]

resolveConfig(options) ==
  IF ~Has(options, "config") THEN DEFAULT_CONFIG
  ELSE Spread(DEFAULT_CONFIG, options.config)

resolveStringifyOptions(options) ==
  LET format == IF Has(options, "format") THEN options.format ELSE "standard"
      baseConfig == IF format = "compact" THEN PLOON_COMPACT ELSE PLOON_STANDARD
  IN [format |-> format,
      config |-> IF Has(options, "config") THEN Spread(baseConfig, options.config)
                 ELSE baseConfig]

resolveParseOptions(options) ==
  [strict |-> IF Has(options, "strict") THEN options.strict ELSE TRUE,
   config |-> resolveConfig(options)]

\* the roles validateConfig requires to be one character each, and distinct
singleCharFields ==
  {"fieldDelimiter", "pathSeparator", "arraySizeMarker", "escapeChar",
   "schemaOpen", "schemaClose", "fieldsOpen", "fieldsClose", "nestedSeparator",
   "schemaFieldSeparator", "schemaWhitespace", "optionalFieldMarker"}

validateConfig(cfg) ==
  LET lengthErrors == {field \in singleCharFields : Len(cfg[field]) # 1}
      separatorErrors == IF Len(cfg.recordSeparator) = 0 THEN {"recordSeparator"} ELSE {}
      conflicts == {field \in singleCharFields :
                      \E other \in singleCharFields \ {field} : cfg[other] = cfg[field]}
  IN IF lengthErrors \cup separatorErrors \cup conflicts # {}
     THEN Throw("Invalid PLOON configuration")
     ELSE Ok(TRUE)

stringify(value, options) ==
  encode(normalizeValue(value), resolveStringifyOptions(options).config)

parse(ploonString, options) ==
  decode(ploonString, resolveParseOptions(options).config)

-----------------------------------------------------------------------------
(* core/validate.ts *)

\* errors and warnings are lists; the result has them undefined when empty,
\* which is the empty list here
ValidationResult(errors, warnings) ==
  [valid |-> Len(errors) = 0, errors |-> errors, warnings |-> warnings]

hasDuplicates(paths) == Len(paths) # Cardinality({paths[i] : i \in 1..Len(paths)})

validateChecks(scanned, parsed) ==
  LET noSchema == IF scanned.schema = <<>> THEN <<"No schema found">> ELSE <<>>
      schemaFailed == IF parsed.error # ""
                      THEN <<"Schema parsing failed: " \o parsed.error>> ELSE <<>>
      noRecords == IF Len(scanned.records) = 0 THEN <<"No records found">> ELSE <<>>
      paths == [i \in 1..Len(scanned.records) |-> scanned.records[i].path]
      duplicates == IF hasDuplicates(paths) THEN <<"Duplicate paths found">> ELSE <<>>
  IN ValidationResult(noSchema \o schemaFailed, noRecords \o duplicates)

validateScanned(scanned, cfg) == validateChecks(scanned, parseSchema(scanned.schema, cfg))

validate(ploonString, cfg) == validateScanned(scan(ploonString, cfg), cfg)

isValid(ploonString, cfg) == validate(ploonString, cfg).valid

-----------------------------------------------------------------------------
(* core/minify.ts, core/prettify.ts *)

minify(ploonString) ==
  LET lines == split(ploonString, "\n") IN
      Let(             Filter(lines, LAMBDA line : Len(trim(line)) > 0), LAMBDA nonEmptyLines : LET
      minified == join(nonEmptyLines, <<";">>)
  IN IF endsWith(minified, ";") THEN slice(minified, 0, -1) ELSE minified)

\* prettify without its early return for a text that has no semicolon
prettifyAlways(ploonString) ==
      Let(     split(ploonString, ";"), LAMBDA parts :
     parts[1] \o <<"\n", "\n">> \o join(Tail(parts), <<"\n">>))

prettify(ploonString) ==
      Let(     split(ploonString, ";"), LAMBDA parts :
     IF Len(parts) < 2 THEN ploonString
     ELSE parts[1] \o <<"\n", "\n">> \o join(Tail(parts), <<"\n">>))

-----------------------------------------------------------------------------
(* Structural equality of values, the order of keys in a map ignored *)

RECURSIVE sortKeys(_)
sortKeys(v) ==
  IF isJsonArray(v) THEN Arr([i \in 1..Len(v.a) |-> sortKeys(v.a[i])])
  ELSE IF isJsonObject(v)
  THEN     Let(    SortStrings(KeySet(v)), LAMBDA keys :
          Obj([i \in 1..Len(keys) |-> [k |-> keys[i], v |-> sortKeys(Get(v, keys[i]))]]))
  ELSE v

deepEqual(obj1, obj2) == sortKeys(obj1) = sortKeys(obj2)

-----------------------------------------------------------------------------
(* The calls of the public operations, one action per call *)

NoResult == [error |-> "", value |-> Undefined]
NoReport == [valid |-> FALSE, errors |-> <<>>, warnings |-> <<>>]

\* encode(input, config)
Encode ==
  /\ pc = "ready"
  /\ LET r == encode(input, config) IN
       /\ text' = r.value
       /\ orig' = r.value
       /\ pc' = IF r.error = "" THEN "encoded" ELSE "failed"
  /\ UNCHANGED <<input, variant, config, variantText, prev, ops, result, callOptions, report, pathWriter>>

\* decode(text, config)
Decode ==
  /\ pc = "encoded"
  /\ result' = decode(text, config)
  /\ pc' = "decoded"
  /\ UNCHANGED <<input, variant, config, text, variantText, orig, prev, ops, callOptions, report, pathWriter>>

\* stringify(input, callOptions)
Stringify ==
  /\ pc = "ready"
  /\ LET r == stringify(input, callOptions) IN
       /\ text' = r.value
       /\ orig' = r.value
       /\ pc' = IF r.error = "" THEN "encoded" ELSE "failed"
  /\ UNCHANGED <<input, variant, config, variantText, prev, ops, result, callOptions, report, pathWriter>>

\* parse(text, callOptions)
Parse ==
  /\ pc = "encoded"
  /\ result' = parse(text, callOptions)
  /\ pc' = "decoded"
  /\ UNCHANGED <<input, variant, config, text, variantText, orig, prev, ops, callOptions, report, pathWriter>>

\* encode(variant, config), after encode(input, config)
EncodeVariant ==
  /\ pc = "encoded"
  /\ LET r == encode(variant, config) IN
       /\ variantText' = r.value
       /\ pc' = IF r.error = "" THEN "compared" ELSE "failed"
  /\ UNCHANGED <<input, variant, config, text, orig, prev, ops, result, callOptions, report, pathWriter>>

\* text = minify(text)
Minify ==
  /\ pc = "encoded"
  /\ Len(ops) < MaxOps
  /\ prev' = text
  /\ text' = minify(text)
  /\ ops' = Append(ops, "minify")
  /\ UNCHANGED <<input, variant, config, variantText, orig, result, callOptions, report, pc, pathWriter>>

\* text = prettify(text)
Prettify ==
  /\ pc = "encoded"
  /\ Len(ops) < MaxOps
  /\ prev' = text
  /\ text' = prettify(text)
  /\ ops' = Append(ops, "prettify")
  /\ UNCHANGED <<input, variant, config, variantText, orig, result, callOptions, report, pc, pathWriter>>

\* report = validate(text, config), after the text was decoded
Validate ==
  /\ pc = "decoded"
  /\ report' = validate(text, config)
  /\ pc' = "validated"
  /\ UNCHANGED <<input, variant, config, text, variantText, orig, prev, ops, result, callOptions, pathWriter>>

\* result = parseSchema(text, config), for a text that is a header
ParseSchema ==
  /\ pc = "ready"
  /\ result' = parseSchema(text, config)
  /\ pc' = "parsed"
  /\ UNCHANGED <<input, variant, config, text, variantText, orig, prev, ops, callOptions, report, pathWriter>>

\* the state before the first call, for an input and a configuration
Start(data, cfg) ==
  /\ input = data
  /\ variant = data
  /\ config = cfg
  /\ text = <<>>
  /\ variantText = <<>>
  /\ orig = <<>>
  /\ prev = <<>>
  /\ ops = <<>>
  /\ result = NoResult
  /\ callOptions = NoOptions
  /\ report = NoReport
  /\ pathWriter = NewPathWriter
  /\ pc = "ready"

Presets == {PLOON_STANDARD, PLOON_COMPACT}

-----------------------------------------------------------------------------
(* Inputs *)

Key(c) == <<c>>
Field(c, v) == [k |-> Key(c), v |-> v]
\* { r: [ ...items ] }
RootOf(items) == Obj(<<Field("r", Arr(items))>>)

\* the characters of string values: a letter, a blank, and the characters
\* the format gives a meaning
Alphabet == {"a", " ", "\\", "|", ",", ";", "\n"}

StringsUpTo(n) == UNION {[1..k -> Alphabet] : k \in 0..n}

\* booleans, finite numbers and strings that are no literal and no number
Scalars ==
  {Bool(TRUE), Bool(FALSE), IntNum(7), Number(TRUE, 1, <<"5">>)}
    \cup {Str(s) : s \in StringsUpTo(MaxStrLen)}

PlainScalars == {Bool(TRUE), IntNum(7), Str(<<"a">>)}

\* value trees of booleans, numbers, strings, objects and uniform arrays of
\* objects: a flat row, rows with a nested object, rows with a nested array
ValueTrees ==
  {RootOf(<<Obj(<<Field("s", v)>>)>>) : v \in Scalars}
    \cup {RootOf(<<Obj(<<Field("n", v), Field("s", w)>>),
                   Obj(<<Field("n", w), Field("s", v)>>)>>) :
            v \in PlainScalars, w \in Scalars}
    \cup {RootOf(<<Obj(<<Field("n", v), Field("o", Obj(<<Field("t", w)>>))>>)>>) :
            v \in PlainScalars, w \in Scalars}
    \cup {RootOf(<<Obj(<<Field("n", v), Field("a", Arr(<<Obj(<<Field("t", w)>>)>>))>>)>>) :
            v \in PlainScalars, w \in Scalars}

-----------------------------------------------------------------------------
(* Round trip of value trees *)

Init ==
  \E data \in ValueTrees, cfg \in Presets : Start(data, cfg)

Next == Encode \/ Decode

Spec == Init /\ [][Next]_vars

\* C1: every value tree of booleans, finite numbers, strings that are no
\* literal and no number, objects and uniform arrays of objects is returned by
\* decode(encode(v, cfg), cfg), up to the order of keys, under both presets.
C1_RoundTrip ==
  pc = "decoded" => result.error = "" /\ deepEqual(result.value, input)


-----------------------------------------------------------------------------
(* Sibling elements with an optional array field *)

\* an array field that is absent, explicitly empty, or holds one element
ArrayStates == {"absent", "empty", "filled"}

\* element number p of a row: { i: p } and the array field A in state st,
\* its element a number (objects = FALSE) or an object (objects = TRUE)
OptionalElement(p, st, objects) ==
  Obj(<<Field("i", IntNum(p))>>
        \o (IF st = "absent" THEN <<>>
            ELSE IF st = "empty" THEN <<Field("A", Arr(<<>>))>>
            ELSE IF objects THEN <<Field("A", Arr(<<Obj(<<Field("x", IntNum(p))>>)>>))>>
            ELSE <<Field("A", Arr(<<IntNum(p)>>))>>))

OptionalRows ==
  {RootOf([p \in 1..Len(row) |-> OptionalElement(p, row[p], objects)]) :
     row \in UNION {[1..k -> ArrayStates] : k \in 1..MaxRows}, objects \in BOOLEAN}

InitOptional ==
  \E data \in OptionalRows, cfg \in Presets : Start(data, cfg)

SpecOptional == InitOptional /\ [][Next]_vars

\* C2: in every array of sibling objects and at every position, an element
\* whose array field A is explicitly [] is decoded with A present and equal
\* to [], and an element without A is decoded without the key A.
C2_EmptyIsNotAbsent ==
  pc = "decoded" =>
    /\ result.error = ""
    /\ LET items == Get(input, Key("r")).a
           decoded == Get(result.value, Key("r"))
       IN /\ isJsonArray(decoded)
          /\ Len(decoded.a) = Len(items)
          /\ \A p \in 1..Len(items) :
               /\ Get(items[p], Key("A")) = Arr(<<>>)
                    => Get(decoded.a[p], Key("A")) = Arr(<<>>)
               /\ ~HasKey(items[p], Key("A")) => ~HasKey(decoded.a[p], Key("A"))

-----------------------------------------------------------------------------
(* String values made of the characters the format gives a meaning *)

\* the field delimiter, the record separator, the comma and the escape character
SpecialChars(cfg) ==
  {cfg.fieldDelimiter, cfg.recordSeparator, ",", cfg.escapeChar}

\* the strings that hold each of the four characters once, in any order, alone
\* or with one letter before, between or after them
EscapeStrings(cfg) ==
  LET chars == SpecialChars(cfg) \cup {"a"}
  IN {str \in [1..4 -> chars] \cup [1..5 -> chars] :
        /\ \A c \in SpecialChars(cfg) : \E i \in DOMAIN str : str[i] = c
        /\ \A i, j \in DOMAIN str : i # j => str[i] # str[j]}

\* a one-element array whose element holds the string value in its only cell,
\* its first cell or its last cell
EscapeRow(str, position) ==
  RootOf(<<Obj(IF position = "only" THEN <<Field("s", Str(str))>>
               ELSE IF position = "first"
               THEN <<Field("s", Str(str)), Field("z", IntNum(1))>>
               ELSE <<Field("b", IntNum(1)), Field("s", Str(str))>>)>>)

InitEscape ==
  \E cfg \in Presets : \E str \in EscapeStrings(cfg) :
    \E position \in {"only", "first", "last"} : Start(EscapeRow(str, position), cfg)

SpecEscape == InitEscape /\ [][Next]_vars

\* the input with its string value replaced by a letter
WithoutSpecials(data) ==
  RootOf(<<Obj([i \in 1..Len(Get(data, Key("r")).a[1].o) |->
                  LET f == Get(data, Key("r")).a[1].o[i]
                  IN IF f.k = Key("s") THEN [k |-> f.k, v |-> Str(<<"a">>)] ELSE f])>>)

\* the number of cells of each record of a document
CellCounts(doc, cfg) ==
  LET records == scan(doc, cfg).records
  IN [i \in 1..Len(records) |-> Len(records[i].values)]

\* C3: a string value that holds the field delimiter, the record separator, a
\* comma and the escape character, in any order and adjacency and in any cell
\* of its record, is returned by decode(encode(...)) exactly, and the document
\* has the records and cells it has without those characters.
C3_EscapedStringRoundTrip ==
  pc = "decoded" =>
    /\ result.error = ""
    /\ deepEqual(result.value, input)
    /\ CellCounts(text, config)
         = CellCounts(encode(WithoutSpecials(input), config).value, config)

-----------------------------------------------------------------------------
(* Nested arrays of uniform objects *)

\* The shape of an array is the sequence of the shapes of its elements; the
\* shape of an element is the shape of its nested array, <<>> for an element
\* of the last level.
RECURSIVE Size(_)
Size(shape) ==
  IF shape = <<>> THEN 0
  ELSE 1 + Size(Head(shape)) + Size(Tail(shape))

\* the non-empty arrays of elements that all have `levels` levels, of at most
\* n elements in all
RECURSIVE ArrayShapes(_, _)
ArrayShapes(levels, n) ==
  IF n < levels THEN {}
  ELSE LET firsts == IF levels = 1 THEN {<<>>} ELSE ArrayShapes(levels - 1, n - 1)
       IN UNION {{<<first>>} \cup
                   {<<first>> \o rest : rest \in ArrayShapes(levels, n - 1 - Size(first))} :
                 first \in firsts}

\* the array of a shape: each element is { i: id, t: "a", c: [...] }, its id
\* made of the indices on the way to it; the last level has no c
RECURSIVE NestedArray(_, _)
NestedArray(shape, parentId) ==
  Arr([p \in 1..Len(shape) |->
         Obj(<<Field("i", IntNum(10 * parentId + p)), Field("t", Str(<<"a">>))>>
               \o (IF shape[p] = <<>> THEN <<>>
                   ELSE <<[k |-> Key("c"), v |-> NestedArray(shape[p], 10 * parentId + p)]>>))])

NestedInputs ==
  {Obj(<<[k |-> Key("r"), v |-> NestedArray(shape, 0)]>>) :
     shape \in UNION {ArrayShapes(levels, MaxNodes) : levels \in 1..MaxLevels}}

InitNest == \E data \in NestedInputs : Start(data, DEFAULT_CONFIG)

NextNest == Stringify \/ Parse

SpecNest == InitNest /\ [][NextNest]_vars

RECURSIVE Levels(_)
Levels(array) ==
  IF Len(array.a) = 0 THEN 0
  ELSE IF HasKey(array.a[1], Key("c")) THEN 1 + Levels(Get(array.a[1], Key("c")))
  ELSE 1

-----------------------------------------------------------------------------
(* Elements with a nested object and a nested array of objects *)

ObjectStates == {"absent", "empty", "filled"}

\* element p of an array, with nested object `objectKey` and nested array
\* `arrayKey` in the given states
MixedElement(p, objectKey, arrayKey, objectState, arrayState) ==
  Obj(<<Field("i", IntNum(p))>>
        \o (IF objectState = "absent" THEN <<>>
            ELSE IF objectState = "empty" THEN <<[k |-> Key(objectKey), v |-> Obj(<<>>)]>>
            ELSE <<[k |-> Key(objectKey), v |-> Obj(<<Field("x", IntNum(10 + p))>>)]>>)
        \o (IF arrayState = "absent" THEN <<>>
            ELSE IF arrayState = "empty" THEN <<[k |-> Key(arrayKey), v |-> Arr(<<>>)]>>
            ELSE <<[k |-> Key(arrayKey),
                    v |-> Arr(<<Obj(<<Field("y", IntNum(20 + p))>>),
                                Obj(<<Field("y", IntNum(30 + p))>>)>>)]>>))

\* the sorted keys put the array before the object with the first pair of
\* names, and the object before the array with the second
MixedNames == {<<"o", "a">>, <<"c", "s">>}

MixedRows(objectKey, arrayKey) ==
  {[p \in 1..Len(row) |-> MixedElement(p, objectKey, arrayKey, row[p][1], row[p][2])] :
     row \in UNION {[1..k -> ObjectStates \X ArrayStates] : k \in {1, 1 + 1}}}

InitMixed ==
  \E names \in MixedNames, cfg \in Presets :
    \E row \in MixedRows(names[1], names[2]) : Start(RootOf(row), cfg)

SpecMixed == InitMixed /\ [][Next]_vars

NonEmptyComplex(v) ==
  IF isJsonArray(v) THEN Len(v.a) > 0
  ELSE IF isJsonObject(v) THEN Len(v.o) > 0
  ELSE FALSE

\* C5: after encode and decode, every element that has both a non-empty
\* nested object and a non-empty nested array of objects has the object as a
\* map under the object's name and the array's elements under the array's
\* name, whichever of the two comes first in the schema.
C5_ObjectAndArrayKeepTheirFields ==
  pc = "decoded" =>
    /\ result.error = ""
    /\ LET items == Get(input, Key("r")).a
           decoded == Get(result.value, Key("r"))
       IN /\ isJsonArray(decoded)
          /\ Len(decoded.a) = Len(items)
          /\ \A p \in 1..Len(items), names \in MixedNames :
               (/\ NonEmptyComplex(Get(items[p], Key(names[1])))
                /\ NonEmptyComplex(Get(items[p], Key(names[2]))))
               => /\ deepEqual(Get(decoded.a[p], Key(names[1])), Get(items[p], Key(names[1])))
                  /\ deepEqual(Get(decoded.a[p], Key(names[2])), Get(items[p], Key(names[2])))

-----------------------------------------------------------------------------
(* Arrays of strings *)

\* the strings of at most MaxStrLen characters made of a letter and the comma
CommaStrings(n) == UNION {[1..k -> {"a", ","}] : k \in 0..n}

\* the arrays of one to three such strings
StringArrays ==
  LET strs == CommaStrings(MaxStrLen)
  IN {<<x>> : x \in strs} \cup (strs \X strs) \cup (strs \X strs \X strs)

InitStringArray ==
  \E elements \in StringArrays, cfg \in Presets :
    Start(RootOf(<<Obj(<<Field("t", Arr([p \in 1..Len(elements) |-> Str(elements[p])]))>>)>>), cfg)

SpecStringArray == InitStringArray /\ [][Next]_vars

\* the document of the one-element root array whose element's only field is
\* the array of strings `elements`, as the format describes it: the field is
\* t#() in the header, and the cell is the elements joined by commas, each
\* comma of an element behind the escape character
StringArrayDocument(elements, cfg) ==
  LET header == <<"[", "r", "#", "1", "]", "(", "t", "#", "(", ")", ")">>
      cells == [p \in 1..Len(elements) |->
                  ReplaceAll(elements[p], <<",">>, <<cfg.escapeChar, ",">>)]
  IN header \o <<cfg.recordSeparator, cfg.recordSeparator>>
       \o <<"1", cfg.pathSeparator, "1", cfg.fieldDelimiter>> \o join(cells, <<",">>)

\* C6: a field that is an array of strings is t#() in the header, its cell is
\* the elements joined by commas with the commas of the elements escaped, and
\* decode returns the array with the same elements in the same order.
C6_StringArrayRoundTrip ==
  LET original == Get(Get(input, Key("r")).a[1], Key("t"))
      elements == [p \in 1..Len(original.a) |-> original.a[p].s]
  IN /\ pc \in {"encoded", "decoded"} => text = StringArrayDocument(elements, config)
     /\ pc = "decoded" =>
          /\ result.error = ""
          /\ LET decoded == Get(result.value, Key("r"))
             IN /\ isJsonArray(decoded)
                /\ Len(decoded.a) = 1
                /\ Get(decoded.a[1], Key("t")) = original

-----------------------------------------------------------------------------
(* The same data with its keys inserted in another order *)

Reverse(s) == [i \in 1..Len(s) |-> s[Len(s) + 1 - i]]

\* the object with the fields of obj inserted in the opposite order
Reordered(obj, swap) == IF swap THEN Obj(Reverse(obj.o)) ELSE obj

\* { n: 1, p: [ { a, b, o: { c, d } } ], q: [ { a, e } ] }, the second array
\* present or not, each map in either insertion order
OrderedData(a, b, withSecond, swapTop, swapElement, swapNested) ==
  LET nested == Reordered(Obj(<<Field("c", a), Field("d", b)>>), swapNested)
      element == Reordered(Obj(<<Field("a", a), Field("b", b), Field("o", nested)>>),
                           swapElement)
      other == Reordered(Obj(<<Field("a", b), Field("e", a)>>), swapElement)
  IN Reordered(Obj(<<Field("n", IntNum(1)), Field("p", Arr(<<element>>))>>
                     \o (IF withSecond THEN <<Field("q", Arr(<<other>>))>> ELSE <<>>)),
               swapTop)

InitOrder ==
  \E a \in PlainScalars, b \in PlainScalars, withSecond \in BOOLEAN, cfg \in Presets :
    \E swapTop \in BOOLEAN, swapElement \in BOOLEAN, swapNested \in BOOLEAN :
      /\ input = OrderedData(a, b, withSecond, FALSE, FALSE, FALSE)
      /\ variant = OrderedData(a, b, withSecond, swapTop, swapElement, swapNested)
      /\ config = cfg
      /\ text = <<>>
      /\ variantText = <<>>
      /\ orig = <<>>
      /\ prev = <<>>
      /\ ops = <<>>
      /\ result = NoResult
      /\ callOptions = NoOptions
      /\ report = NoReport
      /\ pathWriter = NewPathWriter
      /\ pc = "ready"

NextOrder == Encode \/ EncodeVariant

SpecOrder == InitOrder /\ [][NextOrder]_vars

\* the schema header of a document: what comes before the first record
\* separator
HeaderOf(doc, cfg) == split(doc, cfg.recordSeparator)[1]

\* C7: two inputs that are the same data and differ only in the insertion
\* order of the keys of their maps, the top-level map included, encode to
\* documents with the same schema header.
C7_HeaderIgnoresKeyOrder ==
  pc = "compared" => HeaderOf(variantText, config) = HeaderOf(text, config)

-----------------------------------------------------------------------------
(* Documents converted between the standard and the compact form *)

\* string values of a letter and the two record separators
SeparatorStrings(n) == UNION {[1..k -> {"a", ";", "\n"}] : k \in 0..n}

\* root arrays of no, one or two elements { s: string }
FormatInputs ==
  LET strs == SeparatorStrings(MaxStrLen)
      row(str) == Obj(<<Field("s", Str(str))>>)
  IN {RootOf(<<>>)} \cup {RootOf(<<row(x)>>) : x \in strs}
       \cup {RootOf(<<row(x), row(y)>>) : x \in strs, y \in strs}

InitFormat == \E data \in FormatInputs, cfg \in Presets : Start(data, cfg)

NextFormat == Encode \/ Minify \/ Prettify

SpecFormat == InitFormat /\ [][NextFormat]_vars

\* C8: minify applied to the result of minify on an encoded document, in
\* either preset and whatever its string values, changes nothing.
C8_MinifyIdempotent ==
  ops = <<"minify", "minify">> => text = prev

\* C9: prettify applied to the result of prettify changes nothing, whatever
\* the text the first prettify was given.
C9_PrettifyIdempotent ==
  (/\ Len(ops) >= 2
   /\ ops[Len(ops)] = "prettify"
   /\ ops[Len(ops) - 1] = "prettify") => text = prev

\* a compact document of records that the first prettify rewrote and the
\* second left alone
C9_Witness ==
  /\ ops = <<"prettify", "prettify">>
  /\ config = PLOON_COMPACT
  /\ Len(Get(input, Key("r")).a) > 0
  /\ prev # orig
  /\ text = prev

\* C10: prettify gives back the document of the standard preset that minify
\* was given, the document of an empty root array included.
C10_PrettifyReversesMinify ==
  (config = PLOON_STANDARD /\ ops = <<"minify", "prettify">>) => text = orig

-----------------------------------------------------------------------------
(* Documents written by hand: a header, a blank line, record lines *)

DocHeaders ==
  {<<"[", "r", "#", "1", "]", "(", "a", ")">>,
   <<"[", "r", "#", "1", "]", "(", "a", ",", "b", "#", "(", "x", ")", ")">>,
   <<"[", "r", "#", "1", "]", "(", "a", ",", "a", "#", "(", "x", ")", ")">>,
   <<"[", "r", "#", "1", "]", "(", "a">>,
   <<"[", "r", "#", "1", "]">>,
   <<"r", "(", "a", ")">>,
   <<>>}

DocLines ==
  {<<"1", ":", "1", "|", "5">>,
   <<"1", ":", "2", "|", "6">>,
   <<"2", ":", "1", "|", "7">>,
   <<"3", ":", "1", "|", "8">>,
   <<"x", ":", "1", "|", "5">>,
   <<"1", ":", "y", "|", "5">>,
   <<"2", " ", "|", "7">>}

DocBodies ==
  {<<>>} \cup DocLines \cup {l1 \o <<"\n">> \o l2 : l1 \in DocLines, l2 \in DocLines}

Documents == {h \o <<"\n", "\n">> \o b : h \in DocHeaders, b \in DocBodies}

ParseOptionSets == {NoOptions, [strict |-> TRUE], [strict |-> FALSE]}

InitDocument ==
  /\ input = Null
  /\ variant = Null
  /\ config = DEFAULT_CONFIG
  /\ text \in Documents
  /\ variantText = <<>>
  /\ orig = text
  /\ prev = <<>>
  /\ ops = <<>>
  /\ result = NoResult
  /\ callOptions \in ParseOptionSets
  /\ report = NoReport
  /\ pathWriter = NewPathWriter
  /\ pc = "encoded"

NextDocument == Parse \/ Validate

SpecDocument == InitDocument /\ [][NextDocument]_vars

-----------------------------------------------------------------------------
(* C11 *)

\* C11: validate never raises and its report has valid = FALSE for every text
\* on which decode raises; valid is TRUE exactly when there are no errors.
C11_ValidateRejectsWhatDecodeRejects ==
  pc = "validated" =>
    /\ report.valid <=> report.errors = <<>>
    /\ result.error # "" => ~report.valid

-----------------------------------------------------------------------------
(* Calls with options: a format and a partial configuration *)

\* partial configurations; the first two keep every role on its own
\* character, the others give two roles the same character
PartialConfigs ==
  {[fieldDelimiter |-> "/"],
   [fieldDelimiter |-> "/", recordSeparator |-> ";"],
   [pathSeparator |-> "|"],
   [fieldDelimiter |-> ","],
   [escapeChar |-> ":"],
   [arraySizeMarker |-> "(", pathSeparator |-> "|"]}

OptionSets ==
  {NoOptions, [format |-> "standard"], [format |-> "compact"]}
    \cup {[config |-> c] : c \in PartialConfigs}
    \cup {[format |-> f, config |-> c] : f \in {"standard", "compact"}, c \in PartialConfigs}

ConfigInputs ==
  {RootOf(<<Obj(<<Field("n", v), Field("s", w)>>)>>) : v, w \in PlainScalars}

InitConfig ==
  /\ input \in ConfigInputs
  /\ variant = input
  /\ config = DEFAULT_CONFIG
  /\ text = <<>>
  /\ variantText = <<>>
  /\ orig = <<>>
  /\ prev = <<>>
  /\ ops = <<>>
  /\ result = NoResult
  /\ callOptions \in OptionSets
  /\ report = NoReport
  /\ pathWriter = NewPathWriter
  /\ pc = "ready"

NextConfig == Stringify \/ Parse

SpecConfig == InitConfig /\ [][NextConfig]_vars

-----------------------------------------------------------------------------
(* C12 *)

\* C12: when the configuration a call resolves to breaks a rule of
\* validateConfig, stringify returns no text and parse returns no value:
\* each raises the configuration error.
C12_InvalidConfigIsRejected ==
  /\ pc \in {"encoded", "decoded"} =>
       validateConfig(resolveStringifyOptions(callOptions).config).error = ""
  /\ pc = "decoded" =>
       (validateConfig(resolveParseOptions(callOptions).config).error # ""
          => result.error = "Invalid PLOON configuration")

-----------------------------------------------------------------------------
(* C13 *)

\* a path token whose depth is no number, or an array path whose index is none
malformedPath(path, separator) ==
  LET parsed == parsePath(path, separator)
  IN parsed.depth.nan \/ (~parsed.isObject /\ parsed.index.nan)

hasMalformedPath(records, separator) ==
  \E i \in 1..Len(records) : malformedPath(records[i].path, separator)

\* C13: decode raises whenever the path token of some record is malformed.
C13_MalformedPathRaises ==
  (pc = "decoded" /\ hasMalformedPath(scan(text, config).records, config.pathSeparator))
    => result.error # ""

-----------------------------------------------------------------------------
(* Headers written by hand: [r#1] and what follows it *)

HeaderAlphabet == {"a", "(", ")", "{", "}", "#"}

MaxHeaderLen == 4

HeaderTails == UNION {[1..k -> HeaderAlphabet] : k \in 0..MaxHeaderLen}

HeaderTexts == {<<"[", "r", "#", "1", "]">> \o t : t \in HeaderTails}

InitHeader ==
  /\ input = Null
  /\ variant = Null
  /\ config \in Presets
  /\ text \in HeaderTexts
  /\ variantText = <<>>
  /\ orig = text
  /\ prev = <<>>
  /\ ops = <<>>
  /\ result = NoResult
  /\ callOptions = NoOptions
  /\ report = NoReport
  /\ pathWriter = NewPathWriter
  /\ pc = "ready"

NextHeader == ParseSchema

SpecHeader == InitHeader /\ [][NextHeader]_vars

-----------------------------------------------------------------------------
(* C14 *)

\* the nesting depth after the first n characters of str
RECURSIVE depthAfter(_, _, _, _)
depthAfter(str, n, openChar, closeChar) ==
  IF n = 0 THEN 0
  ELSE depthAfter(str, n - 1, openChar, closeChar)
         + (IF str[n] = openChar THEN 1 ELSE IF str[n] = closeChar THEN -1 ELSE 0)

\* every closer has its opener before it and every opener is closed
balanced(str, openChar, closeChar) ==
  /\ depthAfter(str, Len(str), openChar, closeChar) = 0
  /\ \A n \in 1..Len(str) : depthAfter(str, n, openChar, closeChar) >= 0

hasFieldsSection(str, cfg) == \E n \in 1..Len(str) : str[n] = cfg.fieldsOpen

\* C14: parseSchema raises for every header whose parentheses or braces are
\* unbalanced, and for every header that has no fields section.
C14_UnbalancedHeaderRaises ==
  (/\ pc = "parsed"
   /\ \/ ~balanced(text, config.fieldsOpen, config.fieldsClose)
      \/ ~balanced(text, "{", "}")
      \/ ~hasFieldsSection(text, config))
    => result.error # ""

-----------------------------------------------------------------------------
(* C15 *)

\* the number of objects in a value, the value itself included
RECURSIVE objectCount(_)
RECURSIVE objectCountAll(_, _)
objectCount(value) ==
  IF value.t = "object"
  THEN 1 + objectCountAll([i \in 1..Len(value.o) |-> value.o[i].v], 1)
  ELSE IF value.t = "array" THEN objectCountAll(value.a, 1)
  ELSE 0
objectCountAll(values, i) ==
  IF i > Len(values) THEN 0
  ELSE objectCount(values[i]) + objectCountAll(values, i + 1)

\* record i has a depth above 1 and no earlier record one level above it
isOrphan(records, i, separator) ==
  LET depth == parsePath(records[i].path, separator).depth
  IN /\ ~depth.nan
     /\ depth.n > 1
     /\ ~\E j \in 1..(i - 1) :
           NumEq(parsePath(records[j].path, separator).depth, Num(depth.n - 1))

\* C15: a record that has no parent one level above it makes decode raise, and
\* a document that decodes has one object in the tree for each of its records
\* (the headers of the family have no array of primitives), next to the root.
C15_DecodeDropsNoRecord ==
  pc = "decoded" =>
    LET records == scan(text, config).records
    IN /\ (\E i \in 1..Len(records) : isOrphan(records, i, config.pathSeparator))
            => result.error # ""
       /\ result.error = "" => objectCount(result.value) = 1 + Len(records)

-----------------------------------------------------------------------------
(* C16 *)

\* the document has a header that parses and either no record or two records
\* with the same path
strictlyRejected(scanned, cfg) ==
  /\ parseSchema(scanned.schema, cfg).error = ""
  /\ \/ Len(scanned.records) = 0
     \/ hasDuplicates([i \in 1..Len(scanned.records) |-> scanned.records[i].path])

\* C16: with strict mode parse raises on a document that has duplicate paths
\* or no record; without strict mode the same document decodes without raising.
C16_StrictRejectsDuplicatesAndEmpty ==
  (pc = "decoded" /\ strictlyRejected(scan(text, config), config)) =>
    IF resolveParseOptions(callOptions).strict
    THEN result.error # ""
    ELSE result.error = ""

-----------------------------------------------------------------------------
(* C17 *)

\* name, kind and optionality of each field, in order
fieldList(fields) ==
  [i \in 1..Len(fields) |-> <<fields[i].name, fields[i].type, fields[i].isOptional>>]

\* the non-empty arrays of objects inside a value, at every level
RECURSIVE objectArraysOf(_)
objectArraysOf(value) ==
  IF isJsonArray(value)
  THEN (IF Len(value.a) > 0 /\ isArrayOfObjects(value) THEN {value} ELSE {})
         \cup UNION {objectArraysOf(value.a[i]) : i \in 1..Len(value.a)}
  ELSE IF isJsonObject(value)
  THEN UNION {objectArraysOf(value.o[i].v) : i \in 1..Len(value.o)}
  ELSE {}

\* C17: for every array of objects of an encoded value, at every level, the
\* fields the record encoder lays its records out by are the fields the header
\* is written from: same names, kinds, optionality and order.
C17_EncoderFieldsAreSchemaFields ==
  pc = "encoded" =>
    \A array \in objectArraysOf(input) :
      fieldList(encodeArrayFields(array)) = fieldList(analyzeArrayFields(array))

-----------------------------------------------------------------------------
(* Rows whose elements have two complex fields, A and B *)

ComplexKinds == {"array", "object"}

\* the value of a complex field of element p: an array of two objects or an
\* object, empty or filled
ComplexValue(p, kind, state, base) ==
  IF kind = "array"
  THEN IF state = "empty" THEN Arr(<<>>)
       ELSE Arr(<<Obj(<<Field("y", IntNum(base + p))>>),
                  Obj(<<Field("y", IntNum(base + p + 1))>>)>>)
  ELSE IF state = "empty" THEN Obj(<<>>)
       ELSE Obj(<<Field("x", IntNum(base + p))>>)

TwoFieldElement(p, kinds, states) ==
  Obj(<<Field("i", IntNum(p))>>
        \o (IF states[1] = "absent" THEN <<>>
            ELSE <<Field("A", ComplexValue(p, kinds[1], states[1], 10))>>)
        \o (IF states[2] = "absent" THEN <<>>
            ELSE <<Field("B", ComplexValue(p, kinds[2], states[2], 20))>>))

TwoFieldRows ==
  {RootOf([p \in 1..Len(row) |-> TwoFieldElement(p, kinds, row[p])]) :
     kinds \in ComplexKinds \X ComplexKinds,
     row \in UNION {[1..k -> ArrayStates \X ArrayStates] : k \in {1, 1 + 1}}}

InitTwoFields ==
  \E data \in TwoFieldRows : Start(data, PLOON_STANDARD)

SpecTwoFields == InitTwoFields /\ [][Next]_vars

-----------------------------------------------------------------------------
(* C18 *)

\* the position of the field `name` in a field list when it is an optional
\* nested array or object there, 0 otherwise
optionalComplexAt(fields, name) ==
  LET at == {i \in 1..Len(fields) :
               /\ fields[i].name = name
               /\ fields[i].isOptional
               /\ fields[i].type \in {"array", "object"}}
  IN IF at = {} THEN 0 ELSE CHOOSE i \in at : TRUE

\* A and B are optional complex fields of the array, A before B
twoOptionalComplex(array) ==
  LET fields == analyzeArrayFields(array)
  IN /\ optionalComplexAt(fields, Key("A")) > 0
     /\ optionalComplexAt(fields, Key("A")) < optionalComplexAt(fields, Key("B"))

\* C18: when A and B are optional complex fields of an array, A before B, an
\* element without A whose B is not empty is decoded without the key A and
\* with B equal to its original value.
C18_ChildrenStayWithTheirField ==
  (pc = "decoded" /\ twoOptionalComplex(Get(input, Key("r")))) =>
    LET items == Get(input, Key("r")).a
    IN \A p \in 1..Len(items) :
         (~HasKey(items[p], Key("A")) /\ NonEmptyComplex(Get(items[p], Key("B"))))
           => /\ result.error = ""
              /\ isJsonArray(Get(result.value, Key("r")))
              /\ Len(Get(result.value, Key("r")).a) = Len(items)
              /\ ~HasKey(Get(result.value, Key("r")).a[p], Key("A"))
              /\ deepEqual(Get(Get(result.value, Key("r")).a[p], Key("B")),
                           Get(items[p], Key("B")))

-----------------------------------------------------------------------------
(* C19 *)

\* the cells, after the path, of the record of element p of the root array
cellsOfElement(records, p, separator) ==
  LET at == {i \in 1..Len(records) :
               LET parsed == parsePath(records[i].path, separator)
               IN ~parsed.isObject /\ NumEq(parsed.depth, Num(1))
                    /\ NumEq(parsed.index, Num(p))}
  IN records[CHOOSE i \in at : TRUE].values

isEmptyComplex(v) ==
  IF isJsonArray(v) THEN Len(v.a) = 0
  ELSE IF isJsonObject(v) THEN Len(v.o) = 0
  ELSE FALSE

\* the optional complex fields of a field list that obj has with an empty value
presentAndEmpty(fields, obj) ==
  Filter(fields, LAMBDA f :
    /\ f.isOptional
    /\ f.type \in {"array", "object"}
    /\ HasKey(obj, f.name)
    /\ isEmptyComplex(Get(obj, f.name)))

\* the cells of obj's record by the marker rule: one cell per primitive field
\* of the list, then one empty cell per present and empty optional complex field
cellsFollowMarkerRule(cells, fields, obj) ==
  LET primitives == Len(Filter(fields, isPrimitiveType))
      markers == Len(presentAndEmpty(fields, obj))
  IN /\ Len(cells) = primitives + markers
     /\ \A i \in (primitives + 1)..Len(cells) : cells[i] = <<>>

\* C19: the record of each element of an array has one cell per primitive
\* field of the header, then one empty cell for each optional complex field of
\* the header that the element has with an empty value, and no other cell.
C19_OneMarkerPerEmptyOptional ==
  pc = "encoded" =>
    LET array == Get(input, Key("r"))
        records == scan(text, config).records
    IN \A p \in 1..Len(array.a) :
         cellsFollowMarkerRule(cellsOfElement(records, p, config.pathSeparator),
                               analyzeArrayFields(array), array.a[p])

\* the same rule against the field list encodeArray hands to encodeObject
EncoderFieldsMarkerRule ==
  pc = "encoded" =>
    LET array == Get(input, Key("r"))
        records == scan(text, config).records
    IN \A p \in 1..Len(array.a) :
         cellsFollowMarkerRule(cellsOfElement(records, p, config.pathSeparator),
                               encodeArrayFields(array), array.a[p])

-----------------------------------------------------------------------------
(* Rows whose elements have a field t that is an array of primitives *)

PrimitiveElements == {Str(<<>>), Null, Str(<<"a">>), IntNum(7)}

\* absent, or an array of no, one or two primitives
PrimitiveArrayStates ==
  {Undefined, Arr(<<>>)}
    \cup {Arr(<<x>>) : x \in PrimitiveElements}
    \cup {Arr(<<x, y>>) : x, y \in PrimitiveElements}

PrimitiveArrayElement(p, state) ==
  Obj(<<Field("i", IntNum(p))>>
        \o (IF state = Undefined THEN <<>> ELSE <<Field("t", state)>>))

PrimitiveArrayRows ==
  {RootOf(<<PrimitiveArrayElement(1, s1), PrimitiveArrayElement(2, s2)>>) :
     s1, s2 \in PrimitiveArrayStates}

InitPrimitiveArray ==
  \E data \in PrimitiveArrayRows : Start(data, PLOON_STANDARD)

SpecPrimitiveArray == InitPrimitiveArray /\ [][Next]_vars

-----------------------------------------------------------------------------
(* C20 *)

\* the cell of the field t in the record of element p: the one after i's
cellOfT(records, p, separator) == cellsOfElement(records, p, separator)[2]

\* C20: when t is a field of the array, the cell of t is empty only in an
\* element without t and is a single comma only in an element whose t is [],
\* and decode returns each element without t, with [] or with the original
\* elements accordingly.
C20_ThreeStatesStayApart ==
  LET items == Get(input, Key("r")).a
      hasT == \E p \in 1..Len(items) : HasKey(items[p], Key("t"))
  IN /\ (pc = "encoded" /\ hasT) =>
          LET records == scan(text, config).records
          IN \A p \in 1..Len(items) :
               /\ cellOfT(records, p, config.pathSeparator) = <<>>
                    => ~HasKey(items[p], Key("t"))
               /\ cellOfT(records, p, config.pathSeparator) = <<",">>
                    => Get(items[p], Key("t")) = Arr(<<>>)
     /\ (pc = "decoded" /\ hasT) =>
          /\ result.error = ""
          /\ LET decoded == Get(result.value, Key("r"))
             IN /\ isJsonArray(decoded)
                /\ Len(decoded.a) = Len(items)
                /\ \A p \in 1..Len(items) :
                     /\ HasKey(decoded.a[p], Key("t")) = HasKey(items[p], Key("t"))
                     /\ HasKey(items[p], Key("t"))
                          => Get(decoded.a[p], Key("t")) = Get(items[p], Key("t"))

-----------------------------------------------------------------------------
(* Documents written by hand whose records carry presence markers *)

MarkerHeaders ==
  {<<"[", "r", "#", "1", "]", "(", "i", ",", "A", "?", "#", "(", "y", ")", ",",
     "B", "?", "{", "x", "}", ")">>,
   <<"[", "r", "#", "1", "]", "(", "i", ",", "A", "?", "#", "(", "y", ",",
     "C", "?", "#", "(", "z", ")", ")", ",",
     "B", "?", "{", "x", ",", "D", "?", "{", "w", "}", "}", ")">>}

\* records of the root array, without a marker, with one and with two; child
\* records of depth 2, array elements and objects, with and without a marker;
\* a record of depth 3
MarkerLines ==
  {<<"1", ":", "1", "|", "1">>,
   <<"1", ":", "1", "|", "1", "|">>,
   <<"1", ":", "1", "|", "1", "|", "|">>,
   <<"2", ":", "1", "|", "5">>,
   <<"2", ":", "1", "|", "5", "|">>,
   <<"2", " ", "|", "7">>,
   <<"2", " ", "|", "7", "|">>,
   <<"3", ":", "1", "|", "8">>}

MaxMarkerLines == 3

RECURSIVE MarkerBodies(_)
MarkerBodies(n) ==
  IF n = 0 THEN {<<>>}
  ELSE MarkerBodies(n - 1)
         \cup {b \o <<"\n">> \o l : b \in MarkerBodies(n - 1) \ {<<>>}, l \in MarkerLines}
         \cup MarkerLines

MarkerDocuments ==
  {h \o <<"\n", "\n">> \o b : h \in MarkerHeaders, b \in MarkerBodies(MaxMarkerLines)}

InitMarkers ==
  /\ input = Null
  /\ variant = Null
  /\ config = DEFAULT_CONFIG
  /\ text \in MarkerDocuments
  /\ variantText = <<>>
  /\ orig = text
  /\ prev = <<>>
  /\ ops = <<>>
  /\ result = NoResult
  /\ callOptions = NoOptions
  /\ report = NoReport
  /\ pathWriter = NewPathWriter
  /\ pc = "encoded"

NextMarkers == Decode

SpecMarkers == InitMarkers /\ [][NextMarkers]_vars

-----------------------------------------------------------------------------
(* C21 *)

markersOf(obj) == IF HasKey(obj, PresenceKey) THEN Get(obj, PresenceKey).m ELSE {}

\* before is an object as buildTree has it before the cleanup, with the markers
\* its record carried; after is the same object in the result
RECURSIVE markersAgree(_, _, _)
markersAgree(before, after, fields) ==
  \A k \in 1..Len(fields) :
    LET f == fields[k]
        kept == HasKey(after, f.name)
    IN /\ (isComplexParsed(f) /\ f.isOptional) =>
            /\ (kept /\ isEmptyComplex(Get(after, f.name))) <=> f.name \in markersOf(before)
            /\ (/\ f.name \notin markersOf(before)
                /\ (~HasKey(before, f.name) \/ isEmptyComplex(Get(before, f.name))))
                 => ~kept
       /\ (isComplexParsed(f) /\ kept /\ f.nested # Undefined) =>
            IF f.isArray
            THEN \A i \in 1..Len(Get(after, f.name).a) :
                   markersAgree(Get(before, f.name).a[i], Get(after, f.name).a[i],
                                f.nested.fields)
            ELSE markersAgree(Get(before, f.name), Get(after, f.name), f.nested.fields)

\* C21: in every object of a decode result, at every level, an optional
\* complex field is present and empty exactly when the object's record carried
\* a presence marker for it, and one without a marker and without child
\* records is absent.
C21_EmptyOnlyByMarker ==
  (pc = "decoded" /\ result.error = "") =>
    LET scanned == scan(text, config)
        schema == parseSchema(scanned.schema, config).value
        before == treeBeforeCleanup(scanned.records, schema, config)
        after == Get(result.value, schema.rootName).a
    IN /\ Len(after) = Len(before)
       /\ \A p \in 1..Len(after) : markersAgree(before[p], after[p], schema.fields)

\* a decoded element that keeps an empty A by its marker and has lost an empty
\* B that had none
C21_Witness ==
  /\ pc = "decoded"
  /\ result.error = ""
  /\ \E p \in 1..Len(Get(result.value, Key("r")).a) :
       LET before == treeBeforeCleanup(scan(text, config).records,
                                       parseSchema(scan(text, config).schema, config).value,
                                       config)[p]
           after == Get(result.value, Key("r")).a[p]
       IN /\ Get(after, Key("A")) = Arr(<<>>)
          /\ Key("A") \in markersOf(before)
          /\ HasKey(before, Key("B"))
          /\ ~HasKey(after, Key("B"))

-----------------------------------------------------------------------------
(* Rows of two elements whose keys hold values of every kind *)

MaxKeys == 3

\* the keys, in the order they are inserted into an element
BucketKeys == <<"d", "c", "b", "a">>

ValueKinds == {"primitive", "primitiveArray", "array", "object"}

ValueOfKind(kind) ==
  IF kind = "primitive" THEN IntNum(7)
  ELSE IF kind = "primitiveArray" THEN Arr(<<IntNum(7)>>)
  ELSE IF kind = "array" THEN Arr(<<Obj(<<Field("y", IntNum(1))>>)>>)
  ELSE Obj(<<Field("x", IntNum(1))>>)

\* the first element has every key, the second the keys of `present`
BucketRow(kinds, present) ==
  RootOf(<<Obj([k \in 1..Len(kinds) |-> Field(BucketKeys[k], ValueOfKind(kinds[k]))]),
           Obj(Filter([k \in 1..Len(kinds) |-> Field(BucketKeys[k], ValueOfKind(kinds[k]))],
                      LAMBDA e : e.k \in {Key(BucketKeys[k]) : k \in present}))>>)

BucketRows ==
  {BucketRow(kinds, present) :
     kinds \in UNION {[1..n -> ValueKinds] : n \in 1..MaxKeys},
     present \in SUBSET (1..MaxKeys)}

InitBuckets == \E data \in BucketRows : Start(data, PLOON_STANDARD)

SpecBuckets == InitBuckets /\ [][Next]_vars

-----------------------------------------------------------------------------
(* C22 *)

\* 1 required primitive, 2 optional primitive, 3 required complex, 4 optional
\* complex
bucketOf(f) ==
  (IF isPrimitiveType(f) THEN 1 ELSE 3) + (IF f.isOptional THEN 1 ELSE 0)

\* the fields are the keys, bucket after bucket, each bucket in key order
inBucketOrder(fields, keys) ==
  /\ {fields[i].name : i \in 1..Len(fields)} = {keys[i] : i \in 1..Len(keys)}
  /\ Len(fields) = Len(keys)
  /\ \A i, j \in 1..Len(fields) :
       i < j =>
         \/ bucketOf(fields[i]) < bucketOf(fields[j])
         \/ /\ bucketOf(fields[i]) = bucketOf(fields[j])
            /\ StrLess(fields[i].name, fields[j].name)

-----------------------------------------------------------------------------
(* Rows whose field A holds objects and arrays of objects without keys *)

KeylessValues ==
  {IntNum(5),
   Obj(<<>>),
   Obj(<<Field("x", IntNum(1))>>),
   Obj(<<Field("o", Arr(<<Obj(<<>>)>>))>>),
   Arr(<<Obj(<<>>)>>),
   Arr(<<Obj(<<>>), Obj(<<>>)>>),
   Arr(<<Obj(<<Field("y", IntNum(1))>>)>>)}

KeylessElements ==
  {Obj(<<>>)} \cup {Obj(<<Field("A", v)>>) : v \in KeylessValues}

KeylessRows ==
  {RootOf(<<e>>) : e \in KeylessElements}
    \cup {RootOf(<<e1, e2>>) : e1, e2 \in KeylessElements}

InitKeyless == \E data \in KeylessRows : Start(data, PLOON_STANDARD)

SpecKeyless == InitKeyless /\ [][Next]_vars

-----------------------------------------------------------------------------
(* C23 *)

\* the kind the parser gave a field
kindOf(parsed) ==
  IF parsed.isPrimitiveArray THEN "primitiveArray"
  ELSE IF parsed.isArray THEN "array"
  ELSE IF parsed.isObject THEN "object"
  ELSE "primitive"

\* the field list generateNestedObjectSchema infers for a nested object:
\* primitive keys, then required complex keys, then the keys of empty objects
nestedObjectFields(obj) ==
  LET keys == SortStrings(KeySet(obj))
      kind(value) ==
        IF isJsonArray(value)
        THEN (IF isPrimArray(value) THEN "primitiveArray" ELSE "array")
        ELSE IF isJsonObject(value) THEN "object" ELSE "primitive"
      fieldOf(key) ==
        SchemaField(key, kind(Get(obj, key)),
                    isJsonObject(Get(obj, key)) /\ Len(Get(obj, key).o) = 0,
                    Get(obj, key))
      all == [i \in 1..Len(keys) |-> fieldOf(keys[i])]
  IN Filter(all, LAMBDA f : isPrimitiveType(f))
       \o Filter(all, LAMBDA f : ~isPrimitiveType(f) /\ ~f.isOptional)
       \o Filter(all, LAMBDA f : ~isPrimitiveType(f) /\ f.isOptional)

\* the parsed field list has the names, order, optionality and kinds of the
\* inferred one, at every level
RECURSIVE sameFields(_, _)
sameFields(fields, parsed) ==
  /\ Len(fields) = Len(parsed)
  /\ \A i \in 1..Len(fields) :
       /\ parsed[i].name = fields[i].name
       /\ parsed[i].isOptional = fields[i].isOptional
       /\ kindOf(parsed[i]) = fields[i].type
       /\ fields[i].type = "array" =>
            sameFields(analyzeArrayFields(fields[i].nested), parsed[i].nested.fields)
       /\ fields[i].type = "object" =>
            sameFields(nestedObjectFields(fields[i].nested), parsed[i].nested.fields)

\* C23: parsing the header rendered for an array of objects gives back the
\* root name, the root count and, at every level, the inferred field list:
\* the same names in the same order with the same optionality and kind.
C23_HeaderRoundTrip ==
  pc = "encoded" /\ result.error = "" =>
    LET root == schemaFindRootArray(input)
        parsed == parseSchema(generateArraySchema(root.name, root.array, config), config)
    IN /\ parsed.error = ""
       /\ parsed.value.rootName = root.name
       /\ NumEq(parsed.value.count, Num(Len(root.array.a)))
       /\ sameFields(analyzeArrayFields(root.array), parsed.value.fields)


-----------------------------------------------------------------------------
(* Trees of elements with a nested array c and a nested object o *)

MaxTreeLevels == 3
MaxTreeNodes == 6

\* The shape of a node is the shapes of the elements of its array c and of
\* its object o, each absent when the sequence is empty.
LeafShape == [c |-> <<>>, o |-> <<>>]

RECURSIVE TreeSize(_)
TreeSize(shape) ==
  1 + (IF shape.c = <<>> THEN 0
       ELSE TreeSize(shape.c[1])
              + (IF Len(shape.c) = 2 THEN TreeSize(shape.c[2]) ELSE 0))
    + (IF shape.o = <<>> THEN 0 ELSE TreeSize(shape.o[1]))

\* the size of the shapes of a sequence
SizeOfAll(shapes) ==
  IF shapes = <<>> THEN 0
  ELSE TreeSize(shapes[1]) + (IF Len(shapes) = 2 THEN TreeSize(shapes[2]) ELSE 0)

\* the shapes of at most n nodes with at most `levels` levels below the node
RECURSIVE TreeShapes(_, _)
RECURSIVE ShapeSeqs(_, _, _)

\* the sequences of at most `len` shapes of at most n nodes in all
ShapeSeqs(levels, n, len) ==
  IF n <= 0 \/ len = 0 THEN {<<>>}
  ELSE {<<>>} \cup
       UNION {{<<first>> \o rest :
                 rest \in ShapeSeqs(levels, n - TreeSize(first), len - 1)} :
              first \in TreeShapes(levels, n)}

TreeShapes(levels, n) ==
  IF n <= 0 THEN {}
  ELSE IF levels = 0 \/ n = 1 THEN {LeafShape}
  ELSE UNION {{[c |-> cs, o |-> os] :
                 cs \in ShapeSeqs(levels - 1, n - 1 - SizeOfAll(os), 2)} :
              os \in ShapeSeqs(levels - 1, n - 1, 1)}

\* the node of a shape: { i: id, c: [...], o: {...} }; the id of element p of
\* the array of node id is 10 * id + p, the id of its object is 10 * id
RECURSIVE TreeNode(_, _)
TreeNode(shape, id) ==
  Obj(<<Field("i", IntNum(id))>>
        \o (IF shape.c = <<>> THEN <<>>
            ELSE <<Field("c", Arr([p \in 1..Len(shape.c) |->
                                     TreeNode(shape.c[p], 10 * id + p)]))>>)
        \o (IF shape.o = <<>> THEN <<>>
            ELSE <<Field("o", TreeNode(shape.o[1], 10 * id))>>))

TreeInputs ==
  {RootOf([p \in 1..Len(shapes) |-> TreeNode(shapes[p], p)]) :
     shapes \in ShapeSeqs(MaxTreeLevels, MaxTreeNodes, 2) \ {<<>>}}

InitTree == \E data \in TreeInputs : Start(data, PLOON_STANDARD)

SpecTree == InitTree /\ [][Next]_vars

-----------------------------------------------------------------------------
(* C24 *)

\* the ids of a node and of the nodes below it
RECURSIVE idsOf(_)
idsOf(node) ==
  {Get(node, Key("i")).i}
    \cup (IF HasKey(node, Key("c"))
          THEN UNION {idsOf(Get(node, Key("c")).a[p]) :
                        p \in 1..Len(Get(node, Key("c")).a)}
          ELSE {})
    \cup (IF HasKey(node, Key("o")) THEN idsOf(Get(node, Key("o"))) ELSE {})

\* the nesting depth of the node of an id: the number of its digits
RECURSIVE depthOfId(_)
depthOfId(id) == IF id < 10 THEN 1 ELSE 1 + depthOfId(id \div 10)

\* node a is node b or above it
RECURSIVE isAbove(_, _)
isAbove(a, b) ==
  IF b = a THEN TRUE ELSE IF b < 10 THEN FALSE ELSE isAbove(a, b \div 10)

\* the path of the record of a node: depth:index for element `index` of an
\* array, the depth and one space for a nested object
pathOfId(id, cfg) ==
  IF id % 10 = 0 THEN NatToString(depthOfId(id)) \o <<" ">>
  ELSE NatToString(depthOfId(id)) \o <<cfg.pathSeparator>> \o NatToString(id % 10)

\* C24: encode emits the records in pre-order. Every node of the input has
\* one record; the record of a node comes before the records of the nodes
\* below it, and all of them before the record of any node that follows it;
\* the elements of one array carry the indices 1..n in input order; the record
\* of a nested object carries its depth followed by one space.
C24_RecordsInPreOrder ==
  pc = "encoded" =>
    LET records == scan(text, config).records
        ids == [j \in 1..Len(records) |-> parseInt(records[j].values[1]).n]
        root == Get(input, Key("r")).a
    IN /\ {ids[j] : j \in 1..Len(ids)} = UNION {idsOf(root[p]) : p \in 1..Len(root)}
       /\ \A j, k \in 1..Len(ids) : j # k => ids[j] # ids[k]
       /\ \A j \in 1..Len(ids) : records[j].path = pathOfId(ids[j], config)
       /\ \A j, k \in 1..Len(ids) :
            /\ isAbove(ids[j], ids[k]) => j <= k
            /\ (j < k /\ ~isAbove(ids[j], ids[k])) =>
                 \A m \in k..Len(ids) : ~isAbove(ids[j], ids[m])
            /\ (ids[j] \div 10 = ids[k] \div 10 /\ ids[j] % 10 # 0
                  /\ ids[j] < ids[k]) => j < k

\* an encoded tree of three levels: an element whose array has two elements
\* and whose object has an array of its own
C24_Witness ==
  /\ pc = "encoded"
  /\ LET ids == UNION {idsOf(Get(input, Key("r")).a[p]) :
                         p \in 1..Len(Get(input, Key("r")).a)}
     IN {11, 12, 10, 101} \subseteq ids


-----------------------------------------------------------------------------
(* Documents written by hand whose records have depths in any order *)

DepthHeader ==
  <<"[", "r", "#", "1", "]", "(", "i", ",", "c", "#", "(", "i", ",",
    "c", "#", "(", "i", ")", ",", "o", "{", "i", "}", ")", ")">>

\* an element of depth 1, 2, 3 and 4 and an object of depth 2
DepthLines ==
  {<<"1", ":", "1", "|", "1">>,
   <<"2", ":", "1", "|", "2">>,
   <<"2", " ", "|", "5">>,
   <<"3", ":", "1", "|", "3">>,
   <<"4", ":", "1", "|", "4">>}

MaxDepthLines == 4

RECURSIVE DepthBodies(_)
DepthBodies(n) ==
  IF n = 1 THEN DepthLines
  ELSE Let(DepthBodies(n - 1), LAMBDA shorter :
         shorter \cup {b \o <<"\n">> \o l : b \in shorter, l \in DepthLines})

DepthDocuments ==
  {DepthHeader \o <<"\n", "\n">> \o b : b \in DepthBodies(MaxDepthLines)}

InitDepths ==
  /\ input = Null
  /\ variant = Null
  /\ config = DEFAULT_CONFIG
  /\ text \in DepthDocuments
  /\ variantText = <<>>
  /\ orig = text
  /\ prev = <<>>
  /\ ops = <<>>
  /\ result = NoResult
  /\ callOptions = NoOptions
  /\ report = NoReport
  /\ pathWriter = NewPathWriter
  /\ pc = "encoded"

NextDepths == Decode

SpecDepths == InitDepths /\ [][NextDepths]_vars

-----------------------------------------------------------------------------
(* C25 *)

\* the depths of the records of a document
depthsOf(document, cfg) ==
  LET records == scan(document, cfg).records
  IN [i \in 1..Len(records) |-> parsePath(records[i].path, cfg.pathSeparator).depth.n]

\* the records the claim names as the children of record i
directChildren(depths, i) ==
  {j \in (i + 1)..Len(depths) :
     /\ depths[j] = depths[i] + 1
     /\ \A k \in (i + 1)..(j - 1) : depths[k] > depths[i]}

\* C25: the children buildParentChildMap computes for record i are the
\* records j after i of depth(i) + 1 with no record of depth(i) or less
\* between i and j, in ascending order; deeper records between them are
\* skipped; no record is the child of two parents.
C25_ChildrenAreTheDirectRun ==
  pc = "decoded" =>
    LET records == scan(text, config).records
        depths == depthsOf(text, config)
        parentChildMap == buildParentChildMap(records, config.pathSeparator)
    IN /\ \A i \in 1..Len(records) :
            /\ {parentChildMap[i][n] : n \in 1..Len(parentChildMap[i])}
                 = directChildren(depths, i)
            /\ \A m, n \in 1..Len(parentChildMap[i]) :
                 m < n => parentChildMap[i][m] < parentChildMap[i][n]
       /\ \A j \in 1..Len(records) :
            Cardinality({i \in 1..Len(records) :
                           \E n \in 1..Len(parentChildMap[i]) :
                             parentChildMap[i][n] = j}) <= 1

\* a decoded document of depths 1, 3, 2, 1: the record of depth 3 is skipped,
\* the record of depth 2 is a child of the first record, and the last record
\* ends the run
C25_Witness ==
  /\ pc = "decoded"
  /\ depthsOf(text, config) \in {<<1, 3, 2, 1>>, <<1, 2, 3, 2>>}
  /\ directChildren(depthsOf(text, config), 1) # {}


-----------------------------------------------------------------------------
(* A PathWriter driven by any sequence of pushArray, pushObject and pop *)

MaxStackDepth == 4
MaxIndex == 2

PushArray ==
  /\ pc = "writing"
  /\ Len(pathWriter) < MaxStackDepth
  /\ \E index \in 1..MaxIndex : pathWriter' = pushArray(pathWriter, index)
  /\ UNCHANGED <<input, variant, config, text, variantText, orig, prev, ops, result,
                 callOptions, report, pc>>

PushObject ==
  /\ pc = "writing"
  /\ Len(pathWriter) < MaxStackDepth
  /\ pathWriter' = pushObject(pathWriter)
  /\ UNCHANGED <<input, variant, config, text, variantText, orig, prev, ops, result,
                 callOptions, report, pc>>

Pop ==
  /\ pc = "writing"
  /\ pathWriter' = pop(pathWriter)
  /\ UNCHANGED <<input, variant, config, text, variantText, orig, prev, ops, result,
                 callOptions, report, pc>>

InitPathWriter ==
  /\ input = Null
  /\ variant = Null
  /\ config \in Presets
  /\ text = <<>>
  /\ variantText = <<>>
  /\ orig = <<>>
  /\ prev = <<>>
  /\ ops = <<>>
  /\ result = NoResult
  /\ callOptions = NoOptions
  /\ report = NoReport
  /\ pathWriter = NewPathWriter
  /\ pc = "writing"

NextPathWriter == PushArray \/ PushObject \/ Pop

SpecPathWriter == InitPathWriter /\ [][NextPathWriter]_vars

-----------------------------------------------------------------------------
(* C26 *)

\* the stacks of at most n segments
RECURSIVE Stacks(_)
Stacks(n) ==
  IF n = 0 THEN {<<>>}
  ELSE Let(Stacks(n - 1), LAMBDA shorter :
         shorter \cup {Append(s, seg) :
                         s \in shorter,
                         seg \in {ObjectSeg} \cup {ArraySeg(i) : i \in 1..MaxIndex}})

\* the decimal digits of a positive number, the last one first
RECURSIVE digitsBackwards(_)
digitsBackwards(n) ==
  IF n = 0 THEN <<>> ELSE <<n % 10>> \o digitsBackwards(n \div 10)

\* text is the decimal numeral of n
isNumeral(chars, n) ==
  /\ Len(chars) = Len(digitsBackwards(n))
  /\ \A i \in 1..Len(chars) :
       chars[i] = DigitChars[digitsBackwards(n)[Len(chars) + 1 - i] + 1]

\* C26: whenever the stack is not empty, the path of an array top is the stack
\* length, the path separator and the top index; the path of an object top is
\* the stack length followed by exactly one space; the path depends on the
\* stack length and the top segment only.
C26_PathIsDepthAndTop ==
  pathWriter # <<>> =>
    LET depth == Len(pathWriter)
        top == pathWriter[depth]
        path == getCurrentPath(pathWriter, config)
        separatorAt == indexOf(path, config.pathSeparator)
    IN /\ top.type = "array" =>
            /\ separatorAt # -1
            /\ isNumeral(slice(path, 0, separatorAt), depth)
            /\ isNumeral(slice(path, separatorAt + 1, Len(path)), top.index)
       /\ top.type = "object" =>
            /\ path[Len(path)] = " "
            /\ isNumeral(slice(path, 0, Len(path) - 1), depth)
       /\ \A other \in Stacks(MaxStackDepth) :
            (Len(other) = depth /\ other[Len(other)] = top)
              => getCurrentPath(other, config) = path

\* a stack an object was popped off, with an array segment on top of an
\* object segment
C26_Witness ==
  /\ Len(pathWriter) = 3
  /\ pathWriter[3].type = "array"
  /\ pathWriter[2].type = "object"


-----------------------------------------------------------------------------
(* Standard documents minified and decoded with the compact preset *)

\* result = decode(text, PLOON_COMPACT), after the document was minified once
DecodeMinified ==
  /\ pc = "encoded"
  /\ ops = <<"minify">>
  /\ result' = decode(text, PLOON_COMPACT)
  /\ pc' = "decoded"
  /\ UNCHANGED <<input, variant, config, text, variantText, orig, prev, ops, callOptions,
                 report, pathWriter>>

InitMinify == \E data \in FormatInputs : Start(data, PLOON_STANDARD)

NextMinify == Encode \/ Minify \/ DecodeMinified

SpecMinify == InitMinify /\ [][NextMinify]_vars

\* C27: the minified form of a standard document, decoded with the compact
\* preset, gives what the standard document gives decoded with the standard
\* preset, also when string values contain ';' or a newline.
C27_MinifyPreservesValue ==
  (pc = "decoded" /\ ops = <<"minify">>) => result = decode(orig, PLOON_STANDARD)


-----------------------------------------------------------------------------
(* The presets handed to validateConfig *)

\* result = validateConfig(config)
ValidateConfig ==
  /\ pc = "ready"
  /\ result' = validateConfig(config)
  /\ pc' = "validated"
  /\ UNCHANGED <<input, variant, config, text, variantText, orig, prev, ops, callOptions,
                 report, pathWriter>>

InitPresets == \E data \in FormatInputs, cfg \in Presets : Start(data, cfg)

NextPresets == ValidateConfig \/ Encode

SpecPresets == InitPresets /\ [][NextPresets]_vars

\* C28: validateConfig returns without raising for PLOON_STANDARD and for
\* PLOON_COMPACT: every single-character role has length 1 and no two roles
\* share a character.
C28_PresetsAreValid ==
  pc = "validated" => result.error = ""


-----------------------------------------------------------------------------
(* C29 *)

\* a segment the encoder never pushes: once popped it does not come back
BaseSeg == ArraySeg(0)

\* the depths the records carry in their paths
recordDepths(records, cfg) ==
  [j \in 1..Len(records) |->
     parsePath(splitEscaped(records[j], cfg.fieldDelimiter, cfg.escapeChar)[1],
               cfg.pathSeparator).depth.n]

\* the ids the records carry in their first cell
recordIds(records, cfg) ==
  [j \in 1..Len(records) |->
     parseInt(splitEscaped(records[j], cfg.fieldDelimiter, cfg.escapeChar)[2]).n]

\* C29: the pushes and pops of an encode call are balanced. The stack is
\* empty when the records of the root array are written; written on top of a
\* segment that is already there, the stack ends as that one segment, so that
\* no pop reached below the segments the call pushed itself; and the record
\* of every node is written with as many segments on the stack as the node is
\* deep, the elements of the root array at depth 1.
C29_PushesAndPopsBalance ==
  pc = "encoded" =>
    LET rootArray == encoderFindRootArray(input)
        fromEmpty == encodeArray(rootArray, NewPathWriter, config)
        fromBase == encodeArray(rootArray, <<BaseSeg>>, config)
    IN /\ fromEmpty.pathWriter = NewPathWriter
       /\ fromBase.pathWriter = <<BaseSeg>>
       /\ Len(fromBase.records) = Len(fromEmpty.records)
       /\ \A j \in 1..Len(fromEmpty.records) :
            /\ recordDepths(fromEmpty.records, config)[j]
                 = depthOfId(recordIds(fromEmpty.records, config)[j])
            /\ recordDepths(fromBase.records, config)[j]
                 = 1 + depthOfId(recordIds(fromBase.records, config)[j])

\* an encoded tree whose records were written at three depths, a record of
\* depth 1 following one of depth 3
C29_Witness ==
  /\ pc = "encoded"
  /\ LET depths == recordDepths(
                     encodeArray(encoderFindRootArray(input), NewPathWriter, config).records,
                     config)
     IN \E j \in 1..(Len(depths) - 1) : depths[j] = 3 /\ depths[j + 1] = 1


-----------------------------------------------------------------------------
(* C30 *)

\* some object of the value, at any depth, has the bookkeeping key
RECURSIVE keepsPresenceKey(_)
keepsPresenceKey(v) ==
  IF isJsonArray(v) THEN \E i \in 1..Len(v.a) : keepsPresenceKey(v.a[i])
  ELSE IF isJsonObject(v)
  THEN \/ HasKey(v, PresenceKey)
       \/ \E i \in 1..Len(v.o) : keepsPresenceKey(v.o[i].v)
  ELSE FALSE

\* C30: when decode returns, no object of the returned value, at any depth,
\* has the key __presenceMarkers__.
C30_NoPresenceKeyLeft ==
  (pc = "decoded" /\ result.error = "") => ~keepsPresenceKey(result.value)


\* a decoded document whose tree had the key on an object below a root
\* element when the cleanup began
C30_Witness ==
  /\ pc = "decoded"
  /\ result.error = ""
  /\ LET before == treeBeforeCleanup(scan(text, config).records,
                                     parseSchema(scan(text, config).schema, config).value,
                                     config)
     IN \E p \in 1..Len(before) :
          /\ HasKey(before[p], PresenceKey)
          /\ \E k \in 1..Len(before[p].o) :
               /\ before[p].o[k].k # PresenceKey
               /\ before[p].o[k].v.t \in {"array", "object"}
               /\ keepsPresenceKey(before[p].o[k].v)

====
